---- MODULE Spec2Model ----
(***************************************************************************)
(* A model of ccpm's reconciliation engine: DirectoryMerger                *)
(* (ccpm/core/merger.py), BackupManager (ccpm/utils/backup.py) and the     *)
(* setup / update / uninstall flows of CCPMInstaller                       *)
(* (ccpm/core/installer.py).                                               *)
(*                                                                         *)
(* A directory tree is a record [dirs, files]: dirs is the set of          *)
(* directories that exist (the empty path <<>> is the tree's root, so a    *)
(* tree without <<>> does not exist on disk), files maps each existing     *)
(* regular file to its content.  A path is the sequence of its components, *)
(* relative to the tree's root.                                            *)
(***************************************************************************)
EXTENDS Integers, Sequences, FiniteSets, TLC

VARIABLES
    claude,     \* the managed tree <target>/.claude
    bak,        \* the sibling tree <target>/.claude.backup
    tracking,   \* the manifest file <target>/.ccpm_tracking.json
    backups,    \* <target>/.ccpm_backup: backup name -> payload and sidecar
    clock,      \* the wall clock, in whole seconds
    gitignore,  \* the file <target>/.gitignore, as its characters
    last,       \* what the last operation was, what it saw and how it ended
    T0,         \* the managed tree as the first setup found it
    snap,       \* backup name -> the tree create_backup was given
    phase,      \* how the operations run so far line up: setup, update*,
                \* uninstall ("uninstalled"), or setup, update*, setup+,
                \* uninstall ("reuninstalled")
    budget      \* steps the environment and the operations may still take

vars ==
    <<claude, bak, tracking, backups, clock, gitignore, last, T0, snap, phase,
      budget>>

----------------------------------------------------------------------------
(* Bounds of the model.                                                    *)

\* files in a tree the model starts from
MaxInitFiles == 1
\* files in a source tree handed to merge_directories
MaxSourceFiles == 2
\* operations and edits in one behaviour of the installer
MaxSteps == 3
\* edits made by the user in one behaviour
MaxEdits == 1
\* seconds the clock may advance
MaxClock == 1
\* files a merge copied before the copy that fails
MaxPartial == 1
\* files in a target tree handed to merge_directories
MaxTargetFiles == 2
\* calls and edits in one behaviour of the backup manager
MaxBackupSteps == 4
\* removals that fail in one run of uninstall
MaxFailures == 1
\* files in a tree handed to the directory checks, and steps on it
MaxCheckFiles == 2
MaxCheckSteps == 2
MaxSourceSteps == 4
MaxBackups == 3
MaxKeep == 3
MaxCleanRuns == 2
MaxPruneSteps == 4
MaxDocuments == 3
MaxIgnoreLines == 2
MaxIgnoreRuns == 2

----------------------------------------------------------------------------
(* Paths.                                                                  *)

FilePaths ==
    { <<"CLAUDE.md">>,
      <<"settings.local.json">>,
      <<"custom.md">>,
      <<"custom_dir", "file.txt">>,
      <<"scripts", "test-and-log.sh">>,
      <<"scripts", "custom.sh">>,
      <<"scripts", "pm", "init.sh">>,
      <<"commands", "pm", "status.md">>,
      <<"agents", "code-analyzer.md">>,
      <<"agents", "my.py">>,
      <<"prds", "feature.md">>,
      <<"prds", ".gitkeep">>,
      <<"epics", "e1", "epic.md">>,
      <<"context", "README.md">>,
      <<"context", "custom", "note.md">>,
      <<"rules", "datetime.md">> }

Prefixes(p) == { SubSeq(p, 1, k) : k \in 0..Len(p) }

\* the proper ancestors of p, the root included
Parents(p) == { SubSeq(p, 1, k) : k \in 0..(Len(p) - 1) }

\* d is p or an ancestor of p
IsPrefix(d, p) == Len(d) <= Len(p) /\ SubSeq(p, 1, Len(d)) = d

\* str.endswith(suffix) for a suffix without a separator: decided by the
\* last component's name
NamesEnding(suffix) ==
    CASE suffix = ".md" ->
           { "CLAUDE.md", "custom.md", "status.md", "code-analyzer.md",
             "feature.md", "epic.md", "README.md", "note.md", "datetime.md",
             "notes.md" }
      [] suffix = ".sh" -> { "test-and-log.sh", "custom.sh", "init.sh" }
      [] suffix = ".json" -> { "settings.local.json" }
      [] suffix = ".txt" -> { "file.txt" }
      [] suffix = ".py" -> { "my.py" }
      [] OTHER -> {}

EndsWith(p, suffix) == Len(p) > 0 /\ p[Len(p)] \in NamesEnding(suffix)

\* str.startswith(prefix + "/") for a prefix made of whole components
StartsWithDir(p, d) == Len(p) > Len(d) /\ SubSeq(p, 1, Len(d)) = d

----------------------------------------------------------------------------
(* Trees.                                                                  *)

Restrict(f, S) == [ p \in S |-> f[p] ]

NoTree == [ dirs |-> {}, files |-> Restrict(<<>>, {}) ]

\* a single file, when the path handed over is a file and not a directory
FileTree(c) == [ dirs |-> {}, files |-> [ p \in {<<>>} |-> c ] ]

Exists(t) == <<>> \in t.dirs \/ <<>> \in DOMAIN t.files

Files(t) == DOMAIN t.files

IsFile(t, p) == p \in Files(t)

IsDir(t, d) == d \in t.dirs

PathExists(t, p) == IsFile(t, p) \/ IsDir(t, p)

\* the tree that holds exactly the files of f and the directories they need
MkTree(f) ==
    [ dirs |-> {<<>>} \cup UNION { Parents(p) : p \in DOMAIN f },
      files |-> f ]

\* Path.mkdir(parents=True, exist_ok=True)
MkdirP(t, d) == [ t EXCEPT !.dirs = @ \cup Prefixes(d) ]

\* shutil.copy2(src, p) onto a path whose parent exists
WriteFile(t, p, c) ==
    [ t EXCEPT !.files =
        [ q \in DOMAIN @ \cup {p} |-> IF q = p THEN c ELSE @[q] ] ]

\* Path.unlink()
Unlink(t, p) == [ t EXCEPT !.files = Restrict(@, DOMAIN @ \ {p}) ]

\* shutil.rmtree(d)
RmTree(t, d) ==
    [ dirs |-> { x \in t.dirs : ~IsPrefix(d, x) },
      files |-> Restrict(t.files, { p \in Files(t) : ~IsPrefix(d, p) }) ]

\* shutil.copytree(src/d, dst/d): dst/d does not exist, its parent does
CopyTreeAt(src, dst, d) ==
    [ dirs |-> dst.dirs \cup { x \in src.dirs : IsPrefix(d, x) },
      files |-> [ p \in Files(dst) \cup { q \in Files(src) : IsPrefix(d, q) } |->
                    IF p \in Files(src) /\ IsPrefix(d, p)
                    THEN src.files[p] ELSE dst.files[p] ] ]

\* the entries of directory d: Path.iterdir()
IterDir(t, d) ==
    { x \in t.dirs \cup Files(t) : Len(x) = Len(d) + 1 /\ IsPrefix(d, x) }

\* the subsets of P with at most k elements
RECURSIVE SubsetsUpTo(_, _)
SubsetsUpTo(P, k) ==
    IF k = 0 THEN { {} }
    ELSE LET prev == SubsetsUpTo(P, k - 1)
         IN  prev \cup { s \cup {x} : s \in prev, x \in P }

\* the trees with at most k files, on the paths P, with contents from C
TreesOver(P, C, k) ==
    { MkTree(f) : f \in UNION { [S -> C] : S \in SubsetsUpTo(P, k) } }

----------------------------------------------------------------------------
(* DirectoryMerger.                                                        *)

\* a pattern "prefix/*suffix" or an exact path
Star(d, suffix) == [ star |-> TRUE, prefix |-> d, suffix |-> suffix, path |-> <<>> ]
Exact(p) == [ star |-> FALSE, prefix |-> <<>>, suffix |-> "", path |-> p ]

OVERWRITE_FILES ==
    { Star(<<"scripts", "pm">>, ".sh"),
      Star(<<"commands", "pm">>, ".md"),
      Star(<<"agents">>, ".md") }

PRESERVE_FILES ==
    { Exact(<<"CLAUDE.md">>),
      Exact(<<"settings.local.json">>),
      Star(<<"context">>, ".md"),
      Star(<<"rules">>, ".md") }

matches_pattern(path, pattern) ==
    IF pattern.star
    THEN StartsWithDir(path, pattern.prefix) /\ EndsWith(path, pattern.suffix)
    ELSE path = pattern.path

MatchesAny(path, patterns) == \E pat \in patterns : matches_pattern(path, pat)

\* a slip: a preserved file is refreshed from the template like any other
should_copy_file_refresh(rel_path, target, update_mode) ==
    IF MatchesAny(rel_path, PRESERVE_FILES) THEN TRUE
    ELSE IF MatchesAny(rel_path, OVERWRITE_FILES) THEN TRUE
    ELSE ~PathExists(target, rel_path)

\* a slip: the overwrite rules are left out
should_copy_file_no_overwrite(rel_path, target, update_mode) ==
    IF MatchesAny(rel_path, PRESERVE_FILES) THEN ~PathExists(target, rel_path)
    ELSE ~PathExists(target, rel_path)

\* a slip: a file outside the rules is copied only into a directory that is
\* already there
should_copy_file_needs_parent(rel_path, target, update_mode) ==
    IF MatchesAny(rel_path, PRESERVE_FILES) THEN ~PathExists(target, rel_path)
    ELSE IF MatchesAny(rel_path, OVERWRITE_FILES) THEN TRUE
    ELSE /\ ~PathExists(target, rel_path)
         /\ IsDir(target, SubSeq(rel_path, 1, Len(rel_path) - 1))

\* a slip: outside update mode a file outside the rules replaces the target's
should_copy_file_by_mode(rel_path, target, update_mode) ==
    IF MatchesAny(rel_path, PRESERVE_FILES) THEN ~PathExists(target, rel_path)
    ELSE IF MatchesAny(rel_path, OVERWRITE_FILES) THEN TRUE
    ELSE IF update_mode THEN ~PathExists(target, rel_path)
    ELSE TRUE

should_copy_file(rel_path, target, update_mode) ==
    IF MatchesAny(rel_path, PRESERVE_FILES) THEN ~PathExists(target, rel_path)
    ELSE IF MatchesAny(rel_path, OVERWRITE_FILES) THEN TRUE
    ELSE IF update_mode THEN ~PathExists(target, rel_path)
    ELSE ~PathExists(target, rel_path)

get_all_files(directory) == Files(directory)

\* the files merge_directories decides to copy
ToCopy(source, target, update_mode) ==
    { p \in get_all_files(source) : should_copy_file(p, target, update_mode) }

\* a slip: the target is made a mirror of the source, files the source does
\* not hold are dropped
CopyFiles_mirror(source, target, done) ==
    [ dirs |-> {<<>>} \cup UNION { Parents(p) : p \in Files(source) },
      files |-> [ p \in (Files(target) \cap Files(source)) \cup done |->
                    IF p \in done THEN source.files[p] ELSE target.files[p] ] ]

\* target after the files of `done` were copied from source
CopyFiles(source, target, done) ==
    [ dirs |-> target.dirs \cup {<<>>} \cup UNION { Parents(p) : p \in done },
      files |-> [ p \in Files(target) \cup done |->
                    IF p \in done THEN source.files[p] ELSE target.files[p] ] ]

\* merge_directories run to its end
merge_directories(source, target, update_mode) ==
    CopyFiles(source, target, ToCopy(source, target, update_mode))

\* merge_directories stopped by a failing copy: the files are visited in set
\* order, so any proper subset of the files to copy may be in place (here the
\* subsets of at most MaxPartial files)
MergePartial(source, target, update_mode) ==
    LET all == ToCopy(source, target, update_mode)
    IN  { CopyFiles(source, target, done) :
            done \in { s \in SubsetsUpTo(all, MaxPartial) : s # all } }

----------------------------------------------------------------------------
(* BackupManager.  A backup is named <source name>_<YYYYMMDD_HHMMSS>; the   *)
(* only source the installer backs up is .claude, so the second of the     *)
(* clock stands for the name.  The source is a directory or a single file. *)

NoBackups == [ payload |-> Restrict(<<>>, {}), meta |-> Restrict(<<>>, {}) ]

BackupNames(bk) == DOMAIN bk.payload

\* the name of the source, under which copy2 puts a file into a directory
SourceName == ".claude"

\* shutil.copytree raises FileExistsError when the payload path is taken;
\* shutil.copy2 of a file source does not
create_backup_raises(bk, source, now) ==
    \/ ~Exists(source)
    \/ IsDir(source, <<>>) /\ now \in DOMAIN bk.payload

\* what is at the payload path after the copy
BackupPayload(bk, source, now) ==
    IF IsDir(source, <<>>) THEN CopyTreeAt(source, NoTree, <<>>)
    ELSE IF now \in DOMAIN bk.payload /\ IsDir(bk.payload[now], <<>>)
    THEN WriteFile(bk.payload[now], <<SourceName>>, source.files[<<>>])
    ELSE FileTree(source.files[<<>>])

create_backup(bk, source, now) ==
    [ payload |-> [ n \in DOMAIN bk.payload \cup {now} |->
                      IF n = now THEN BackupPayload(bk, source, now)
                      ELSE bk.payload[n] ],
      meta |-> [ n \in DOMAIN bk.meta \cup {now} |->
                   IF n = now
                   THEN [ source |-> SourceName, created_at |-> now,
                          type |-> IF IsDir(source, <<>>) THEN "directory"
                                   ELSE "file" ]
                   ELSE bk.meta[n] ] ]

\* a slip: the payload is copied over the target without clearing it first
restore_backup_overlay(bk, name, target) ==
    CopyTreeAt(bk.payload[name], target, <<>>)

restore_backup_nested(bk, name, target) ==
    LET src == bk.payload[name]
        into == [ dirs |-> { <<"backup">> \o x : x \in src.dirs },
                  files |-> [ p \in { <<"backup">> \o q : q \in Files(src) } |->
                                src.files[Tail(p)] ] ]
    IN  IF Exists(target)
        THEN CopyTreeAt(into, target, <<>>)
        ELSE CopyTreeAt(src, target, <<>>)

restore_backup(bk, name, target) ==
    LET cleared == IF Exists(target) THEN RmTree(target, <<>>) ELSE target
    IN  CopyTreeAt(bk.payload[name], cleared, <<>>)

\* list_backups lists the metadata documents that load and take the
\* backup_path key: a document that is not JSON ("unparsable") raises in
\* json.load, one that is JSON but no object ("not_object") raises in the
\* item assignment, and both are skipped
Listed(bk) ==
    { n \in DOMAIN bk.meta : bk.meta[n].type \notin { "unparsable", "not_object" } }

\* created_at is a string (a timestamp n > 0, or 0 for the default "" of a
\* document without the key) or, in a document some other hand wrote, a
\* JSON number (below 0 here); the sort raises TypeError when it has to
\* compare a string with a number
list_backups_raises(bk) ==
    \E a, b \in Listed(bk) :
        bk.meta[a].created_at < 0 /\ bk.meta[b].created_at >= 0

\* the orders list_backups may return: newest created_at first, documents
\* with equal created_at in the order glob yields them
list_backups(bk) ==
    { l \in [ 1..Cardinality(Listed(bk)) -> Listed(bk) ] :
        /\ \A i, j \in DOMAIN l : i # j => l[i] # l[j]
        /\ \A i, j \in DOMAIN l :
              i < j => bk.meta[l[i]].created_at >= bk.meta[l[j]].created_at }

\* a slip: the newest backups are the ones taken for removal
OldBackups_newest(backups_list, keep_count) ==
    SubSeq(backups_list, 1, Len(backups_list) - keep_count)

\* backups[keep_count:], for keep_count >= 0
OldBackups(backups_list, keep_count) ==
    SubSeq(backups_list, keep_count + 1, Len(backups_list))

\* rmtree or unlink of the payload, when it is there
RemovePayloadOf(bk, n) ==
    [ bk EXCEPT !.payload = Restrict(@, DOMAIN @ \ {n}) ]

\* unlink of the metadata document, when it is there
RemoveMetadataOf(bk, n) ==
    [ bk EXCEPT !.meta = Restrict(@, DOMAIN @ \ {n}) ]

----------------------------------------------------------------------------
(* The tracking manifest (.ccpm_tracking.json).  kind tells what is on     *)
(* disk: "missing", "corrupt" (not JSON), "current" (written by            *)
(* _create_tracking_file) or "legacy" (no ccpm_scaffolding_files key).     *)
(* last_updated = 0 stands for a manifest without the key.                 *)

NoTracking ==
    [ kind |-> "missing", had_existing_claude |-> TRUE,
      ccpm_scaffolding_files |-> <<>>, ccpm_files |-> <<>>,
      user_content_dirs |-> {}, last_updated |-> 0,
      data_safety_version |-> "none" ]

CorruptTracking == [ NoTracking EXCEPT !.kind = "corrupt" ]

\* an old-format manifest: a flat ccpm_files list
LegacyTracking(files, had_existing) ==
    [ NoTracking EXCEPT !.kind = "legacy", !.ccpm_files = files,
                        !.had_existing_claude = had_existing ]

\* a slip: the agents directory of the template is tracked for removal
create_tracking_file_tracks_agents(had_existing) ==
    [ kind |-> "current",
      had_existing_claude |-> had_existing,
      ccpm_scaffolding_files |->
          << <<"scripts", "pm">>, <<"scripts", "test-and-log.sh">>,
             <<"commands", "pm">>, <<"agents">>, <<"settings.local.json">>,
             <<"context">>, <<"CLAUDE.md">> >>,
      ccpm_files |-> <<>>,
      user_content_dirs |-> { <<"prds">>, <<"epics">>, <<"context", "custom">> },
      last_updated |-> 0,
      data_safety_version |-> "1.0" ]

\* a slip: every install is recorded as a fresh one
create_tracking_file_fresh(had_existing) ==
    [ kind |-> "current",
      had_existing_claude |-> FALSE,
      ccpm_scaffolding_files |->
          << <<"scripts", "pm">>, <<"scripts", "test-and-log.sh">>,
             <<"commands", "pm">>, <<"settings.local.json">>,
             <<"context">>, <<"CLAUDE.md">> >>,
      ccpm_files |-> <<>>,
      user_content_dirs |->
          { <<"agents">>, <<"prds">>, <<"epics">>, <<"context", "custom">> },
      last_updated |-> 0,
      data_safety_version |-> "1.0" ]

create_tracking_file(had_existing) ==
    [ kind |-> "current",
      had_existing_claude |-> had_existing,
      ccpm_scaffolding_files |->
          << <<"scripts", "pm">>, <<"scripts", "test-and-log.sh">>,
             <<"commands", "pm">>, <<"settings.local.json">>,
             <<"context">>, <<"CLAUDE.md">> >>,
      ccpm_files |-> <<>>,
      user_content_dirs |->
          { <<"agents">>, <<"prds">>, <<"epics">>, <<"context", "custom">> },
      last_updated |-> 0,
      data_safety_version |-> "1.0" ]

\* _save_tracking_file: open(..., "w") empties the file and json.dump writes
\* into it; a write that stops part-way leaves a document that does not load
save_tracking_file(data, written) == IF written THEN data ELSE CorruptTracking

----------------------------------------------------------------------------
(* CCPMInstaller: the checks uninstall relies on.                          *)

\* the template files _is_template_only_directory knows
TemplateOnlyFiles ==
    { <<"agents", "code-analyzer.md">>, <<"agents", "file-analyzer.md">>,
      <<"agents", "parallel-worker.md">>, <<"agents", "test-runner.md">>,
      <<"context", "README.md">>, <<"prds", ".gitkeep">>,
      <<"epics", ".gitkeep">>,
      <<"commands", "code-rabbit.md">>, <<"commands", "prompt.md">>,
      <<"commands", "re-init.md">>,
      <<"commands", "context", "create.md">>,
      <<"commands", "context", "update.md">>,
      <<"commands", "context", "prime.md">>,
      <<"commands", "testing", "run.md">>,
      <<"commands", "testing", "prime.md">>,
      <<"rules", "worktree-operations.md">>, <<"rules", "standard-patterns.md">>,
      <<"rules", "github-operations.md">>,
      <<"rules", "frontmatter-operations.md">>, <<"rules", "datetime.md">>,
      <<"rules", "branch-management.md">>, <<"rules", "iteration-patterns.md">>,
      <<"rules", "project-structure.md">>, <<"rules", "tracking-operations.md">>,
      <<"rules", "code-generation.md">>,
      <<"rules", "coordination-operations.md">>,
      <<"rules", "agent-coordination.md">>, <<"rules", "branch-operations.md">>,
      <<"rules", "strip-frontmatter.md">>, <<"rules", "test-execution.md">>,
      <<"rules", "use-ast-grep.md">>, <<"scripts", "utils.sh">> }

\* the template files _is_template_file knows
TemplateFiles ==
    { <<"settings.local.json">>, <<"CLAUDE.md">>,
      <<"agents", "code-analyzer.md">>, <<"agents", "file-analyzer.md">>,
      <<"agents", "parallel-worker.md">>, <<"agents", "test-runner.md">>,
      <<"context", "README.md">>, <<"prds", ".gitkeep">>,
      <<"epics", ".gitkeep">> }

is_template_only_directory(t, directory) ==
    IF ~IsDir(t, directory) THEN TRUE
    ELSE { p \in Files(t) : IsPrefix(directory, p) } \subseteq TemplateOnlyFiles

is_template_file(t, file_path) ==
    IF ~PathExists(t, file_path) THEN TRUE
    ELSE IF file_path \in TemplateFiles THEN TRUE
    ELSE IF IsDir(t, file_path) THEN is_template_only_directory(t, file_path)
    ELSE FALSE

\* the suffixes of the rglob patterns *.md, *.py, *.json, *.txt; the nested
\* patterns */epic.md and */task_*.md name files the first one already finds
UserSuffixes == { ".md", ".py", ".json", ".txt" }

is_directory_empty_of_user_content(t, directory) ==
    IF ~IsDir(t, directory) THEN TRUE
    ELSE ~\E p \in Files(t) :
            /\ StartsWithDir(p, directory)
            /\ \E suffix \in UserSuffixes : EndsWith(p, suffix)

\* "user_dir in f" on a path string: the names in this model that hold
\* agents, prds or epics as a substring are the three directory names
ContainsUserDir(f) ==
    \E i \in 1..Len(f) : f[i] \in { "agents", "prds", "epics" }

\* file_path.startswith("context")
StartsWithContext(f) == Len(f) > 0 /\ f[1] \in { "context" }

\* the rmdir of the emptied root, as both uninstall paths run it:
\* the function-local "import sys" sits in the branch for an empty root, so
\* in the other branch "sys.platform" raises UnboundLocalError, which the
\* enclosing "except Exception: pass" swallows before rmdir is reached
RmdirRoot(t) == [ t EXCEPT !.dirs = @ \ {<<>>} ]

----------------------------------------------------------------------------
(* CCPMInstaller.uninstall.                                                *)

\* removing path x raises: the removal of some path of `fails` that is x or
\* lies under x is refused (permission, lock) for the whole run
RemovalFails(t, x, fails) ==
    \E f \in fails : IsPrefix(x, f) /\ PathExists(t, f)

\* what a failed rmtree of the root leaves: everything, or (wiped) only the
\* refused paths, the entries visited before them being gone already
AfterFailedRmTree(t, fails, wiped) ==
    IF ~wiped THEN t
    ELSE LET keep == { p \in Files(t) : \E f \in fails : IsPrefix(f, p) }
             held == { f \in fails : PathExists(t, f) }
         IN  [ dirs |-> {<<>>} \cup UNION { Parents(f) : f \in held }
                        \cup { d \in t.dirs : \E f \in held : IsPrefix(f, d) },
               files |-> Restrict(t.files, keep) ]

\* the loop over the scaffolding paths of the manifest; a removal that
\* raises is reported and the loop goes on
RECURSIVE RemoveScaffolding(_, _, _)
RemoveScaffolding(t, files, fails) ==
    IF files = <<>> THEN t
    ELSE LET f == Head(files)
             t1 == IF StartsWithContext(f) THEN t
                   ELSE IF RemovalFails(t, f, fails) THEN t
                   ELSE IF IsDir(t, f) THEN RmTree(t, f)
                   ELSE IF IsFile(t, f) THEN Unlink(t, f)
                   ELSE t
         IN  RemoveScaffolding(t1, Tail(files), fails)

template_dirs_to_check ==
    << <<"agents">>, <<"prds">>, <<"epics">>, <<"commands">>, <<"rules">>,
       <<"scripts">>, <<"context">> >>

\* the loop of a clean install over template_dirs_to_check
RECURSIVE RemoveTemplateDirs(_, _, _)
RemoveTemplateDirs(t, dirs, fails) ==
    IF dirs = <<>> THEN t
    ELSE LET d == Head(dirs)
             t1 == IF /\ IsDir(t, d)
                      /\ is_template_only_directory(t, d)
                      /\ ~RemovalFails(t, d, fails)
                   THEN RmTree(t, d) ELSE t
         IN  RemoveTemplateDirs(t1, Tail(dirs), fails)

NotUserDir(f) == ~ContainsUserDir(f)

\* the paths uninstall removes: the manifest's list, or the filtered legacy list
ScaffoldingFiles(trk) ==
    IF trk.kind = "current" THEN trk.ccpm_scaffolding_files
    ELSE SelectSeq(trk.ccpm_files, NotUserDir)

\* "If .claude directory is now empty, remove it completely"
RemoveEmptyRoot(t, fails) ==
    IF ~Exists(t) THEN t
    ELSE IF IterDir(t, <<>>) = {} THEN RmdirRoot(t)
    ELSE IF IterDir(t, <<>>) = { <<"settings.local.json">> }
              /\ IsFile(t, <<"settings.local.json">>)
              /\ ~RemovalFails(t, <<"settings.local.json">>, fails)
         THEN Unlink(t, <<"settings.local.json">>)
    ELSE t

\* a slip: the tracked path ends without restoring .claude.backup
TrackedUninstall_no_restore(t, b, trk, fails, wiped) ==
    LET t1 == RemoveScaffolding(t, ScaffoldingFiles(trk), fails)
        t2 == IF ~trk.had_existing_claude
              THEN RemoveTemplateDirs(t1, template_dirs_to_check, fails) ELSE t1
    IN  [ claude |-> RemoveEmptyRoot(t2, fails), bak |-> b,
          tracking |-> NoTracking, result |-> "tracked" ]

\* the tracked path, from loading the manifest to restoring .claude.backup
TrackedUninstall(t, b, trk, fails, wiped) ==
    LET t1 == RemoveScaffolding(t, ScaffoldingFiles(trk), fails)
        t2 == IF ~trk.had_existing_claude
              THEN RemoveTemplateDirs(t1, template_dirs_to_check, fails) ELSE t1
        t3 == RemoveEmptyRoot(t2, fails)
    IN  IF ~Exists(b)
        THEN [ claude |-> t3, bak |-> b,
               tracking |-> NoTracking, result |-> "tracked" ]
        ELSE IF Exists(t3) /\ RemovalFails(t3, <<>>, fails)
        THEN [ claude |-> AfterFailedRmTree(t3, fails, wiped), bak |-> b,
               tracking |-> NoTracking, result |-> "tracked" ]
        ELSE [ claude |-> CopyTreeAt(b, NoTree, <<>>), bak |-> NoTree,
               tracking |-> NoTracking, result |-> "tracked" ]

safe_to_remove ==
    << <<"scripts", "test-and-log.sh">>, <<"settings.local.json">>,
       <<"CLAUDE.md">> >>

RECURSIVE RemoveSafe(_, _)
RemoveSafe(t, files) ==
    IF files = <<>> THEN t
    ELSE LET f == Head(files)
             t1 == IF IsDir(t, f)
                   THEN IF is_directory_empty_of_user_content(t, f)
                        THEN RmTree(t, f) ELSE t
                   ELSE IF IsFile(t, f) THEN Unlink(t, f)
                   ELSE t
         IN  RemoveSafe(t1, Tail(files))

RECURSIVE RemoveItems(_, _)
RemoveItems(t, items) ==
    IF items = {} THEN t
    ELSE LET item == CHOOSE x \in items : TRUE
             t1 == IF IsDir(t, item) THEN RmTree(t, item) ELSE Unlink(t, item)
         IN  RemoveItems(t1, items \ {item})

\* a slip: the recognised items of the root are removed although another
\* item is not recognised
safe_uninstall_without_tracking_eager(t) ==
    LET t1 == RemoveSafe(t, safe_to_remove)
        pm == <<"scripts", "pm">>
        t2 == IF IsDir(t1, <<"scripts">>) /\ IsDir(t1, pm)
                   /\ is_directory_empty_of_user_content(t1, pm)
              THEN LET r == RmTree(t1, pm)
                   IN  IF IterDir(r, <<"scripts">>) = {}
                       THEN RmTree(r, <<"scripts">>) ELSE r
              ELSE t1
        remaining_items == IterDir(t2, <<>>)
    IN  IF remaining_items = {} THEN RmdirRoot(t2)
        ELSE RemoveItems(t2, { item \in remaining_items : is_template_file(t2, item) })

safe_uninstall_without_tracking(t) ==
    LET t1 == RemoveSafe(t, safe_to_remove)
        pm == <<"scripts", "pm">>
        t2 == IF IsDir(t1, <<"scripts">>) /\ IsDir(t1, pm)
                   /\ is_directory_empty_of_user_content(t1, pm)
              THEN LET r == RmTree(t1, pm)
                   IN  IF IterDir(r, <<"scripts">>) = {}
                       THEN RmTree(r, <<"scripts">>) ELSE r
              ELSE t1
        remaining_items == IterDir(t2, <<>>)
    IN  IF remaining_items = {} THEN RmdirRoot(t2)
        ELSE IF \A item \in remaining_items : is_template_file(t2, item)
        THEN RemoveItems(t2, remaining_items)
        ELSE t2

\* the process environment of one run: is stdin a terminal (and no CI
\* variable set), is CCPM_FORCE set, the value of CCPM_UNINSTALL_SCAFFOLDING
\* ("none" when unset) and what the user types when asked
Env(tty, force, override, typed) ==
    [ tty |-> tty, force |-> force, override |-> override, typed |-> typed ]

is_interactive_environment(env) == env.tty /\ ~env.force

\* a slip: CCPM_FORCE is taken for the answer y
safe_input_force_yes(env, default) ==
    IF env.override # "none" THEN env.override
    ELSE IF env.force THEN "y"
    ELSE IF ~is_interactive_environment(env) THEN default
    ELSE env.typed

safe_input(env, default) ==
    IF env.override # "none" THEN env.override
    ELSE IF ~is_interactive_environment(env) THEN default
    ELSE env.typed

\* str.lower() on the answers of this model
Lower(r) == IF r = "Y" THEN "y" ELSE r

uninstall(t, b, trk, env, fails, wiped) ==
    IF ~Exists(t)
    THEN [ claude |-> t, bak |-> b, tracking |-> trk, result |-> "not_installed" ]
    ELSE IF trk.kind = "missing"
    THEN IF Lower(safe_input(env, "N")) # "y"
         THEN [ claude |-> t, bak |-> b, tracking |-> trk, result |-> "cancelled" ]
         ELSE [ claude |-> safe_uninstall_without_tracking(t), bak |-> b,
                tracking |-> trk, result |-> "conservative" ]
    ELSE IF trk.kind = "corrupt"
    THEN [ claude |-> t, bak |-> b, tracking |-> trk, result |-> "raised" ]
    ELSE TrackedUninstall(t, b, trk, fails, wiped)

----------------------------------------------------------------------------
(* CCPMInstaller.setup.                                                    *)

\* names the merge from .claude.backup treats as template files
SkipNames == { ".gitkeep", "README.md" }

Name(p) == p[Len(p)]

\* _merge_directory_contents: items are entries of one directory of src
RECURSIVE MergeItems(_, _, _)
MergeItems(src, dst, items) ==
    IF items = {} THEN dst
    ELSE LET item == CHOOSE x \in items : TRUE
             dst1 ==
                 IF IsDir(src, item)
                 THEN IF ~PathExists(dst, item) THEN CopyTreeAt(src, dst, item)
                      ELSE MergeItems(src, dst, IterDir(src, item))
                 ELSE IF ~PathExists(dst, item) \/ Name(item) \notin SkipNames
                      THEN WriteFile(dst, item, src.files[item])
                      ELSE dst
         IN  MergeItems(src, dst1, items \ {item})

merge_directory_contents(src, dst, d) == MergeItems(src, dst, IterDir(src, d))

\* the entries of one user directory of the backup
RECURSIVE MergeUserItems(_, _, _)
MergeUserItems(src, dst, items) ==
    IF items = {} THEN dst
    ELSE LET item == CHOOSE x \in items : TRUE
             dst1 ==
                 IF IsDir(src, item)
                 THEN IF ~PathExists(dst, item) THEN CopyTreeAt(src, dst, item)
                      ELSE merge_directory_contents(src, dst, item)
                 ELSE IF Name(item) \notin SkipNames
                      THEN WriteFile(dst, item, src.files[item])
                      ELSE dst
         IN  MergeUserItems(src, dst1, items \ {item})

user_dirs == << <<"agents">>, <<"prds">>, <<"epics">>, <<"context">> >>

RECURSIVE MergeUserDirs(_, _, _)
MergeUserDirs(src, dst, dirs) ==
    IF dirs = <<>> THEN dst
    ELSE LET d == Head(dirs)
             dst1 == IF ~PathExists(src, d) THEN dst
                     ELSE MergeUserItems(src, MkdirP(dst, d), IterDir(src, d))
         IN  MergeUserDirs(src, dst1, Tail(dirs))

\* contents json.load accepts
JsonContents == { "t1", "t2", "u1", "merged" }

\* _merge_settings_files: the template's settings with the backup's
\* permission entries added, written again; any failure keeps the template's
merge_settings_files(backup_content, target_content) ==
    IF backup_content \in JsonContents /\ target_content \in JsonContents
    THEN "merged" ELSE target_content

ccpm_template_items ==
    { "agents", "commands", "context", "epics", "prds", "scripts",
      "settings.local.json", "CLAUDE.md", ".gitkeep", "README.md" }

\* the custom entries in the root of the backup
RECURSIVE MergeRootItems(_, _, _)
MergeRootItems(src, dst, items) ==
    IF items = {} THEN dst
    ELSE LET item == CHOOSE x \in items : TRUE
             dst1 ==
                 IF Name(item) \in ccpm_template_items THEN dst
                 ELSE IF IsDir(src, item)
                 THEN IF ~PathExists(dst, item) THEN CopyTreeAt(src, dst, item)
                      ELSE merge_directory_contents(src, dst, item)
                 ELSE IF ~PathExists(dst, item)
                      THEN WriteFile(dst, item, src.files[item])
                      ELSE dst
         IN  MergeRootItems(src, dst1, items \ {item})

merge_user_content_from_backup(backup_dir, t) ==
    IF ~Exists(backup_dir) THEN t
    ELSE LET settings == <<"settings.local.json">>
             t1 == MergeUserDirs(backup_dir, t, user_dirs)
             t2 == IF IsFile(backup_dir, settings) /\ IsFile(t1, settings)
                   THEN WriteFile(t1, settings,
                            merge_settings_files(backup_dir.files[settings],
                                                 t1.files[settings]))
                   ELSE t1
         IN  MergeRootItems(backup_dir, t2, IterDir(backup_dir, <<>>))

\* setup from step 5 on, once the GitHub CLI steps are through: the backup,
\* the move to .claude.backup, the copy of the template, the merge back and
\* the manifest.  outcome "template_missing" is the clone fallback failing;
\* "copy_fails" is shutil.copytree not finding the template, as after a
\* clone fallback that went through, whose temporary directory is removed
\* before the copy; "save_fails" is the write of the manifest stopping
\* part-way.
setup(t, b, trk, bk, now, template, outcome) ==
    LET existing_claude == Exists(t)
        written == outcome # "save_fails"
        result == IF written THEN "ok" ELSE "raised"
        unchanged == [ claude |-> t, bak |-> b, tracking |-> trk,
                       backups |-> bk, result |-> "raised", backed_up |-> FALSE ]
    IN  IF outcome = "gh_missing" THEN unchanged
        ELSE IF existing_claude /\ create_backup_raises(bk, t, now) THEN unchanged
        ELSE LET bk1 == IF existing_claude THEN create_backup(bk, t, now) ELSE bk
             IN  IF outcome = "template_missing"
                 THEN [ unchanged EXCEPT !.backups = bk1,
                                         !.backed_up = existing_claude ]
                 ELSE IF outcome = "copy_fails"
                 THEN [ claude |-> NoTree,
                        bak |-> IF existing_claude THEN CopyTreeAt(t, NoTree, <<>>)
                                ELSE b,
                        tracking |-> trk, backups |-> bk1,
                        result |-> "raised", backed_up |-> existing_claude ]
                 ELSE IF existing_claude
                 THEN LET backup_dir == CopyTreeAt(t, NoTree, <<>>)
                          fresh == CopyTreeAt(template, NoTree, <<>>)
                      IN  [ claude |-> merge_user_content_from_backup(backup_dir, fresh),
                            bak |-> backup_dir,
                            tracking |-> save_tracking_file(create_tracking_file(TRUE),
                                                            written),
                            backups |-> bk1, result |-> result, backed_up |-> TRUE ]
                 ELSE [ claude |-> CopyTreeAt(template, NoTree, <<>>),
                        bak |-> b,
                        tracking |-> save_tracking_file(create_tracking_file(FALSE),
                                                        written),
                        backups |-> bk1, result |-> result, backed_up |-> FALSE ]

----------------------------------------------------------------------------
(* CCPMInstaller._update_gitignore.  The file is the sequence of its       *)
(* pieces: the text of a line (never empty) or a line terminator.          *)

Terminators == { "\n", "\r\n" }

NoIgnoreFile == [ exists |-> FALSE, content |-> <<>> ]

IgnoreFile(content) == [ exists |-> TRUE, content |-> content ]

entries_to_add ==
    << ".ccpm_tracking.json", ".ccpm_backup/", ".claude/epics/", ".claude/prds/" >>

\* str.splitlines: a terminator ends the line begun before it, text after
\* the last terminator is a line of its own
RECURSIVE SplitFrom(_, _)
SplitFrom(content, cur) ==
    IF content = <<>> THEN IF cur = "" THEN <<>> ELSE <<cur>>
    ELSE IF Head(content) \in Terminators
    THEN <<cur>> \o SplitFrom(Tail(content), "")
    ELSE SplitFrom(Tail(content), Head(content))

splitlines(content) == SplitFrom(content, "")

\* "\n".join(lines) + "\n", written with the given terminator
RECURSIVE JoinWith(_, _)
JoinWith(lines, sep) ==
    IF lines = <<>> THEN <<>>
    ELSE (IF Head(lines) = "" THEN <<>> ELSE <<Head(lines)>>)
         \o (IF Len(lines) = 1 THEN <<>> ELSE <<sep>>)
         \o JoinWith(Tail(lines), sep)

WriteLines(lines) == JoinWith(lines, "\n") \o <<"\n">>

InLines(entry, lines) == \E i \in DOMAIN lines : lines[i] = entry

RECURSIVE AppendMissing(_, _)
AppendMissing(lines, entries) ==
    IF entries = <<>> THEN lines
    ELSE AppendMissing(IF InLines(Head(entries), lines) THEN lines
                       ELSE Append(lines, Head(entries)),
                       Tail(entries))

\* a slip: the entries are appended without looking at the lines
update_gitignore_append(file) ==
    LET content == IF file.exists THEN file.content ELSE <<>>
        lines == IF content # <<>> THEN splitlines(content) ELSE <<>>
    IN  IgnoreFile(WriteLines(lines \o entries_to_add))

update_gitignore(file) ==
    LET content == IF file.exists THEN file.content ELSE <<>>
        lines == IF content # <<>> THEN splitlines(content) ELSE <<>>
    IN  IgnoreFile(WriteLines(AppendMissing(lines, entries_to_add)))

----------------------------------------------------------------------------
(* CCPMInstaller.update.                                                   *)

\* the manifest after "Update tracking file": a manifest that is missing or
\* does not load is left as it is; outcome "save_fails" is the write of the
\* manifest stopping part-way
TouchTracking(trk, now, outcome) ==
    IF trk.kind \in { "current", "legacy" }
    THEN save_tracking_file([ trk EXCEPT !.last_updated = now + 1 ],
                            outcome # "save_fails")
    ELSE trk

\* a slip: a failed update raises without putting the backup back
update_no_restore(t, trk, bk, now, download, outcome, partial) ==
    LET unchanged == [ claude |-> t, tracking |-> trk, backups |-> bk,
                       result |-> "raised", backed_up |-> FALSE ]
    IN  IF ~Exists(t) THEN [ unchanged EXCEPT !.result = "raised_not_installed" ]
        ELSE IF create_backup_raises(bk, t, now) THEN unchanged
        ELSE LET bk1 == create_backup(bk, t, now)
             IN  IF outcome = "merge_fails"
                 THEN [ claude |-> partial, tracking |-> trk, backups |-> bk1,
                        result |-> "raised", backed_up |-> TRUE ]
                 ELSE IF outcome \in { "ok", "save_fails" }
                 THEN [ claude |-> merge_directories(download, t, TRUE),
                        tracking |-> TouchTracking(trk, now, outcome),
                        backups |-> bk1, result |-> "ok", backed_up |-> TRUE ]
                 ELSE [ unchanged EXCEPT !.backups = bk1, !.backed_up = TRUE ]

\* a slip: a manifest that cannot be rewritten fails the update, which puts
\* the backup back
update_strict_tracking(t, trk, bk, now, download, outcome, partial) ==
    LET unchanged == [ claude |-> t, tracking |-> trk, backups |-> bk,
                       result |-> "raised", backed_up |-> FALSE ]
    IN  IF ~Exists(t) THEN [ unchanged EXCEPT !.result = "raised_not_installed" ]
        ELSE IF create_backup_raises(bk, t, now) THEN unchanged
        ELSE LET bk1 == create_backup(bk, t, now)
             IN  IF outcome \in { "clone_fails", "no_claude_dir" }
                 THEN [ claude |-> restore_backup(bk1, now, t),
                        tracking |-> trk, backups |-> bk1,
                        result |-> "raised", backed_up |-> TRUE ]
                 ELSE IF outcome = "merge_fails"
                 THEN [ claude |-> restore_backup(bk1, now,
                                       restore_backup(bk1, now, partial)),
                        tracking |-> trk, backups |-> bk1,
                        result |-> "raised", backed_up |-> TRUE ]
                 ELSE IF outcome = "save_fails" \/ trk.kind = "corrupt"
                 THEN [ claude |-> restore_backup(bk1, now,
                                       merge_directories(download, t, TRUE)),
                        tracking |-> TouchTracking(trk, now, outcome),
                        backups |-> bk1, result |-> "raised", backed_up |-> TRUE ]
                 ELSE [ claude |-> merge_directories(download, t, TRUE),
                        tracking |-> TouchTracking(trk, now, outcome),
                        backups |-> bk1, result |-> "ok", backed_up |-> TRUE ]

\* a slip: update makes the managed root when it is missing
update_makes_root(t, trk, bk, now, download, outcome, partial) ==
    LET unchanged == [ claude |-> t, tracking |-> trk, backups |-> bk,
                       result |-> "raised", backed_up |-> FALSE ]
    IN  IF ~Exists(t)
        THEN [ unchanged EXCEPT !.claude = MkdirP(t, <<>>),
                                !.result = "raised_not_installed" ]
        ELSE IF create_backup_raises(bk, t, now) THEN unchanged
        ELSE LET bk1 == create_backup(bk, t, now)
             IN  IF outcome \in { "clone_fails", "no_claude_dir" }
                 THEN [ claude |-> restore_backup(bk1, now, t),
                        tracking |-> trk, backups |-> bk1,
                        result |-> "raised", backed_up |-> TRUE ]
                 ELSE IF outcome = "merge_fails"
                 THEN [ claude |-> restore_backup(bk1, now,
                                       restore_backup(bk1, now, partial)),
                        tracking |-> trk, backups |-> bk1,
                        result |-> "raised", backed_up |-> TRUE ]
                 ELSE [ claude |-> merge_directories(download, t, TRUE),
                        tracking |-> TouchTracking(trk, now, outcome),
                        backups |-> bk1, result |-> "ok", backed_up |-> TRUE ]

\* update: outcome is how the run goes ("clone_fails", "no_claude_dir",
\* "merge_fails" with the tree the failing merge left in `partial`,
\* "save_fails" or "ok")
update(t, trk, bk, now, download, outcome, partial) ==
    LET unchanged == [ claude |-> t, tracking |-> trk, backups |-> bk,
                       result |-> "raised", backed_up |-> FALSE ]
    IN  IF ~Exists(t) THEN [ unchanged EXCEPT !.result = "raised_not_installed" ]
        ELSE IF create_backup_raises(bk, t, now) THEN unchanged
        ELSE LET bk1 == create_backup(bk, t, now)
             IN  IF outcome \in { "clone_fails", "no_claude_dir" }
                 THEN [ claude |-> restore_backup(bk1, now, t),
                        tracking |-> trk, backups |-> bk1,
                        result |-> "raised", backed_up |-> TRUE ]
                 ELSE IF outcome = "merge_fails"
                 THEN [ claude |-> restore_backup(bk1, now,
                                       restore_backup(bk1, now, partial)),
                        tracking |-> trk, backups |-> bk1,
                        result |-> "raised", backed_up |-> TRUE ]
                 ELSE [ claude |-> merge_directories(download, t, TRUE),
                        tracking |-> TouchTracking(trk, now, outcome),
                        backups |-> bk1, result |-> "ok", backed_up |-> TRUE ]

----------------------------------------------------------------------------
(* Inputs.                                                                 *)

\* what the user writes before the tool runs, and what later edits write
InitContents == { "u1" }
EditContents == { "u2" }

Tpl(S, c) == MkTree([ p \in S |-> c ])

\* a template like the one the package bundles
FullTemplate ==
    { <<"CLAUDE.md">>, <<"settings.local.json">>,
      <<"scripts", "test-and-log.sh">>, <<"scripts", "pm", "init.sh">>,
      <<"commands", "pm", "status.md">>, <<"agents", "code-analyzer.md">>,
      <<"prds", ".gitkeep">>, <<"context", "README.md">>,
      <<"rules", "datetime.md">> }

\* a template with the PM scripts and commands alone
BareTemplate ==
    { <<"scripts", "pm", "init.sh">>, <<"commands", "pm", "status.md">> }

TemplateShapes == { FullTemplate, BareTemplate, FilePaths }

\* the template setup installs, and the one update downloads
SetupTemplates == { Tpl(S, "t1") : S \in TemplateShapes }
Downloads == { Tpl(S, "t2") : S \in TemplateShapes }

InitTrees == {NoTree} \cup TreesOver(FilePaths, InitContents, MaxInitFiles)

\* the paths the user edits
EditPaths ==
    { <<"CLAUDE.md">>, <<"custom.md">>, <<"scripts", "pm", "init.sh">>,
      <<"scripts", "pm", "notes.md">>,
      <<"agents", "code-analyzer.md">>, <<"prds", "feature.md">>,
      <<"context", "custom", "note.md">> }

\* the directories the user deletes
EditDirs == { <<"scripts", "pm">>, <<"prds">> }

\* one edit of an existing tree: write a file, delete a file, delete a directory
UserEdits(t) ==
    { WriteFile(MkdirP(t, SubSeq(p, 1, Len(p) - 1)), p, c) :
        p \in EditPaths, c \in EditContents }
    \cup { Unlink(t, p) : p \in Files(t) \cap EditPaths }
    \cup { RmTree(t, d) : d \in t.dirs \cap EditDirs }

\* the removals refused during one run of uninstall: none, or up to
\* MaxFailures scaffolding paths that are there to be removed
RemovalFailures(t, trk) ==
    IF trk.kind \in { "current", "legacy" }
    THEN SubsetsUpTo({ ScaffoldingFiles(trk)[i] : i \in 1..Len(ScaffoldingFiles(trk)) }
                       \cap { x \in t.dirs \cup Files(t) : ~StartsWithContext(x) },
                     MaxFailures)
    ELSE { {} }

Envs ==
    { Env(FALSE, TRUE, "none", "N"),    \* CCPM_FORCE alone
      Env(FALSE, FALSE, "y", "N"),      \* CCPM_UNINSTALL_SCAFFOLDING=y
      Env(FALSE, FALSE, "none", "N"),   \* no terminal, nothing set
      Env(TRUE, FALSE, "none", "y"),    \* the user types y
      Env(TRUE, FALSE, "none", "N"),    \* the user declines
      Env(TRUE, TRUE, "none", "y") }    \* a terminal, but CCPM_FORCE is set

LegacyLists ==
    { << <<"scripts", "pm">>, <<"commands", "pm">>, <<"agents">>, <<"prds">>,
         <<"epics">>, <<"scripts", "test-and-log.sh">> >>,
      << <<"scripts">>, <<"agents", "my.py">>, <<"CLAUDE.md">> >> }

Manifests ==
    { NoTracking, CorruptTracking }
    \cup { LegacyTracking(l, h) : l \in LegacyLists, h \in BOOLEAN }

----------------------------------------------------------------------------
(* History.                                                                *)

NoOp ==
    [ op |-> "none", result |-> "none", pre |-> NoTree, preTracking |-> NoTracking,
      preBak |-> NoTree, src |-> NoTree, mode |-> FALSE, backed_up |-> FALSE,
      name |-> 0, outcome |-> "none", env |-> Env(FALSE, FALSE, "none", "N"),
      dir |-> <<>>, failed |-> {}, preBackups |-> NoBackups,
      todo |-> <<>>, keep |-> 0, preIgnore |-> NoIgnoreFile ]

\* the record of an operation run on the current state
Ran(op, result) ==
    [ NoOp EXCEPT !.op = op, !.result = result, !.pre = claude,
                  !.preTracking = tracking, !.preBak = bak,
                  !.preBackups = backups ]

Snapped(r) ==
    IF r.backed_up
    THEN [ n \in DOMAIN snap \cup {clock} |-> IF n = clock THEN claude ELSE snap[n] ]
    ELSE snap

Spend(edit) ==
    /\ budget.steps > 0
    /\ edit => budget.edits > 0
    /\ budget' = [ steps |-> budget.steps - 1,
                   edits |-> IF edit THEN budget.edits - 1 ELSE budget.edits ]

----------------------------------------------------------------------------
(* The installer on one target directory.                                  *)

Init ==
    /\ claude \in InitTrees
    /\ gitignore = NoIgnoreFile
    /\ bak = NoTree
    /\ tracking = NoTracking
    /\ backups = NoBackups
    /\ clock = 0
    /\ last = NoOp
    /\ T0 = NoTree
    /\ snap = Restrict(<<>>, {})
    /\ phase = "init"
    /\ budget = [ steps |-> MaxSteps, edits |-> MaxEdits ]

\* setup, with the ways a run may go taken from `outcomes`
SetupWith(outcomes) ==
    \E template \in SetupTemplates, outcome \in outcomes :
        LET r == setup(claude, bak, tracking, backups, clock, template, outcome)
        IN  /\ Spend(FALSE)
            /\ claude' = r.claude
            /\ bak' = r.bak
            /\ tracking' = r.tracking
            /\ backups' = r.backups
            /\ snap' = Snapped(r)
            /\ last' = [ Ran("setup", r.result) EXCEPT
                            !.src = IF r.result = "ok" THEN template ELSE NoTree,
                            !.outcome = IF r.tracking # tracking
                                           \/ outcome = "copy_fails"
                                        THEN outcome ELSE "none",
                            !.backed_up = r.backed_up ]
            /\ T0' = IF phase = "init" /\ r.result = "ok" THEN claude ELSE T0
            /\ phase' = IF phase = "init" /\ r.result = "ok" THEN "setup"
                        ELSE IF phase \in { "setup", "resetup" } /\ r.result = "ok"
                        THEN "resetup"
                        ELSE "off"
            /\ gitignore' = IF r.result = "ok" THEN update_gitignore(gitignore)
                            ELSE gitignore
            /\ UNCHANGED clock

Setup == SetupWith({ "ok", "gh_missing", "template_missing" })

\* update, with the ways a run may go taken from `outcomes`
UpdateWith(outcomes) ==
    \E download \in Downloads, outcome \in outcomes :
    \E partial \in IF outcome = "merge_fails"
                   THEN MergePartial(download, claude, TRUE) ELSE { claude } :
        LET r == update(claude, tracking, backups, clock, download, outcome, partial)
        IN  /\ outcome = "save_fails" => tracking.kind \in { "current", "legacy" }
            /\ Spend(FALSE)
            /\ claude' = r.claude
            /\ tracking' = r.tracking
            /\ backups' = r.backups
            /\ snap' = Snapped(r)
            /\ last' = [ Ran("update", r.result) EXCEPT
                            !.src = IF r.result = "ok" THEN download ELSE NoTree,
                            !.mode = TRUE,
                            !.outcome = IF r.backed_up THEN outcome ELSE "none",
                            !.backed_up = r.backed_up ]
            /\ phase' = IF phase = "setup" /\ r.result = "ok" THEN "setup" ELSE "off"
            /\ UNCHANGED <<gitignore, bak, clock, T0>>

Update == UpdateWith({ "ok", "clone_fails", "no_claude_dir", "merge_fails" })

Uninstall ==
    \E env \in Envs, fails \in RemovalFailures(claude, tracking),
       wiped \in BOOLEAN :
        LET r == uninstall(claude, bak, tracking, env, fails, wiped)
        IN  /\ wiped => (fails # {} /\ Exists(bak))
            /\ Spend(FALSE)
            /\ claude' = r.claude
            /\ bak' = r.bak
            /\ tracking' = r.tracking
            /\ last' = [ Ran("uninstall", r.result) EXCEPT
                            !.env = IF r.result = "tracked" THEN NoOp.env ELSE env,
                            !.failed = IF r.result = "tracked" THEN fails ELSE {} ]
            /\ phase' = IF phase = "setup" /\ tracking.kind = "current"
                        THEN "uninstalled"
                        ELSE IF phase = "resetup" /\ tracking.kind = "current"
                        THEN "reuninstalled"
                        ELSE "off"
            /\ UNCHANGED <<gitignore, backups, clock, T0, snap>>

\* the user edits the managed tree
UserEdit ==
    /\ Exists(claude)
    /\ \E t \in UserEdits(claude) :
        /\ t # claude
        /\ Spend(TRUE)
        /\ claude' = t
        /\ last' = Ran("edit", "ok")
        /\ phase' = IF phase \in { "init", "setup" } THEN phase ELSE "off"
        /\ UNCHANGED <<gitignore, bak, tracking, backups, clock, T0, snap>>

\* the manifest is lost, damaged, or is one an older version wrote
ManifestEdit ==
    \E m \in Manifests :
        /\ m # tracking
        /\ Spend(TRUE)
        /\ tracking' = m
        /\ last' = Ran("manifest", "ok")
        /\ phase' = "off"
        /\ UNCHANGED <<gitignore, claude, bak, backups, clock, T0, snap>>

\* a second passes; it shows only in the name of the next backup, so the
\* model lets it pass when a backup of the current second exists
Tick ==
    /\ clock < MaxClock
    /\ clock \in BackupNames(backups)
    /\ clock' = clock + 1
    /\ UNCHANGED <<gitignore, claude, bak, tracking, backups, last, T0, snap, phase, budget>>

Next == Setup \/ Update \/ Uninstall \/ UserEdit \/ ManifestEdit \/ Tick

Spec == Init /\ [][Next]_vars

----------------------------------------------------------------------------
(* setup and update where the write of the manifest may stop part-way and  *)
(* the copy of the template may fail.                                      *)

SetupSaving == SetupWith({ "ok", "save_fails", "copy_fails" })

UpdateSaving == UpdateWith({ "ok", "save_fails" })

NextSaving == SetupSaving \/ UpdateSaving \/ ManifestEdit \/ Tick

SpecSaving == Init /\ [][NextSaving]_vars

----------------------------------------------------------------------------
(* merge_directories on its own: any source, any target, both modes.       *)

MergePaths ==
    { <<"CLAUDE.md">>, <<"settings.local.json">>, <<"custom.md">>,
      <<"scripts", "custom.sh">>, <<"scripts", "pm", "init.sh">>,
      <<"commands", "pm", "status.md">>, <<"agents", "code-analyzer.md">>,
      <<"agents", "my.py">>, <<"prds", "feature.md">>,
      <<"context", "README.md">>, <<"context", "custom", "note.md">>,
      <<"rules", "datetime.md">> }

MergeTargets == {NoTree} \cup TreesOver(MergePaths, InitContents, MaxTargetFiles)

MergeSources == TreesOver(MergePaths, { "t1" }, MaxSourceFiles)

InitMerge ==
    /\ claude \in MergeTargets
    /\ gitignore = NoIgnoreFile
    /\ bak = NoTree
    /\ tracking = NoTracking
    /\ backups = NoBackups
    /\ clock = 0
    /\ last = NoOp
    /\ T0 = NoTree
    /\ snap = Restrict(<<>>, {})
    /\ phase = "merge"
    /\ budget = [ steps |-> 2, edits |-> 0 ]

\* merge_directories(source, target, update_mode) runs to its end
Merge ==
    /\ last.op = "none"
    /\ \E source \in MergeSources, update_mode \in BOOLEAN :
        /\ Spend(FALSE)
        /\ claude' = merge_directories(source, claude, update_mode)
        /\ last' = [ Ran("merge", "ok") EXCEPT !.src = source, !.mode = update_mode ]
        /\ UNCHANGED <<gitignore, bak, tracking, backups, clock, T0, snap, phase>>

\* a copy fails and the exception leaves merge_directories
MergeFails ==
    /\ last.op = "none"
    /\ \E source \in MergeSources, update_mode \in BOOLEAN :
       \E partial \in MergePartial(source, claude, update_mode) :
        /\ Spend(FALSE)
        /\ claude' = partial
        /\ last' = [ Ran("merge", "raised") EXCEPT !.src = source,
                                                   !.mode = update_mode ]
        /\ UNCHANGED <<gitignore, bak, tracking, backups, clock, T0, snap, phase>>

\* the same merge is run a second time
MergeAgain ==
    /\ last.op = "merge"
    /\ last.result = "ok"
    /\ Spend(FALSE)
    /\ claude' = merge_directories(last.src, claude, last.mode)
    /\ last' = [ Ran("merge_again", "ok") EXCEPT !.src = last.src,
                                                 !.mode = last.mode ]
    /\ UNCHANGED <<gitignore, bak, tracking, backups, clock, T0, snap, phase>>

NextMerge == Merge \/ MergeFails \/ MergeAgain

SpecMerge == InitMerge /\ [][NextMerge]_vars

----------------------------------------------------------------------------
(* BackupManager on its own: backups of a tree the user keeps editing.     *)

InitBackup ==
    /\ claude \in TreesOver(FilePaths, InitContents, MaxInitFiles)
    /\ gitignore = NoIgnoreFile
    /\ bak = NoTree
    /\ tracking = NoTracking
    /\ backups = NoBackups
    /\ clock = 0
    /\ last = NoOp
    /\ T0 = NoTree
    /\ snap = Restrict(<<>>, {})
    /\ phase = "backup"
    /\ budget = [ steps |-> MaxBackupSteps, edits |-> MaxBackupSteps ]

CreateBackup ==
    /\ Spend(FALSE)
    /\ IF create_backup_raises(backups, claude, clock)
       THEN /\ last' = Ran("create_backup", "raised")
            /\ UNCHANGED <<gitignore, backups, snap>>
       ELSE /\ backups' = create_backup(backups, claude, clock)
            /\ snap' = Snapped([ backed_up |-> TRUE ])
            /\ last' = [ Ran("create_backup", "ok") EXCEPT !.name = clock,
                                                           !.backed_up = TRUE,
                                                           !.preBackups = backups ]
    /\ UNCHANGED <<gitignore, claude, bak, tracking, clock, T0, phase>>

RestoreBackup ==
    \E name \in BackupNames(backups) :
        /\ Spend(FALSE)
        /\ claude' = restore_backup(backups, name, claude)
        /\ last' = [ Ran("restore_backup", "ok") EXCEPT !.name = name ]
        /\ UNCHANGED <<gitignore, bak, tracking, backups, clock, T0, snap, phase>>

\* the user edits the backed-up tree, or removes it altogether
EditTree ==
    \E t \in (IF IsDir(claude, <<>>) THEN UserEdits(claude) ELSE {}) \cup {NoTree} :
        /\ t # claude
        /\ Spend(TRUE)
        /\ claude' = t
        /\ last' = Ran("edit", "ok")
        /\ UNCHANGED <<gitignore, bak, tracking, backups, clock, T0, snap, phase>>

NextBackup == CreateBackup \/ RestoreBackup \/ EditTree \/ Tick

SpecBackup == InitBackup /\ [][NextBackup]_vars

----------------------------------------------------------------------------
(* BackupManager on a source that is a directory at one time and a single  *)
(* file at another: create_backup takes either.                            *)

SourceContents == InitContents \cup EditContents

FileSources == { FileTree(c) : c \in SourceContents }

InitSource ==
    /\ claude \in TreesOver(FilePaths, InitContents, MaxInitFiles) \cup FileSources
    /\ gitignore = NoIgnoreFile
    /\ bak = NoTree
    /\ tracking = NoTracking
    /\ backups = NoBackups
    /\ clock = 0
    /\ last = NoOp
    /\ T0 = NoTree
    /\ snap = Restrict(<<>>, {})
    /\ phase = "source"
    /\ budget = [ steps |-> MaxSourceSteps, edits |-> MaxSourceSteps ]

\* the user rewrites the file, or puts a file or a directory in its place
EditSource ==
    \E t \in FileSources \cup TreesOver(FilePaths, InitContents, MaxInitFiles) :
        /\ t # claude
        /\ Spend(TRUE)
        /\ claude' = t
        /\ last' = Ran("edit", "ok")
        /\ UNCHANGED <<gitignore, bak, tracking, backups, clock, T0, snap, phase>>

NextSource == CreateBackup \/ RestoreBackup \/ EditSource \/ Tick

SpecSource == InitSource /\ [][NextSource]_vars

----------------------------------------------------------------------------
(* clean_old_backups on a backup directory.  Next to backups that          *)
(* create_backup made there may be metadata without created_at (0 here),   *)
(* metadata that does not load, and metadata whose payload is gone.        *)

BackupSlots == 1..MaxBackups

Payload == Tpl({ <<"CLAUDE.md">> }, "u1")

Metadata(n) ==
    { [ source |-> SourceName, created_at |-> c, type |-> t ] :
        c \in { 0, n }, t \in { "directory", "unparsable" } }

BackupDirs ==
    { [ payload |-> [ n \in P |-> Payload ], meta |-> m ] :
        P \in SUBSET BackupSlots,
        m \in UNION { { f \in [ M -> UNION { Metadata(n) : n \in M } ] :
                           \A n \in M : f[n] \in Metadata(n) } :
                      M \in SUBSET BackupSlots } }

InitClean ==
    /\ claude = NoTree
    /\ gitignore = NoIgnoreFile
    /\ bak = NoTree
    /\ tracking = NoTracking
    /\ backups \in BackupDirs
    /\ clock = 0
    /\ last = NoOp
    /\ T0 = NoTree
    /\ snap = Restrict(<<>>, {})
    /\ phase = "idle"
    /\ budget = [ steps |-> MaxCleanRuns, edits |-> 0 ]

\* clean_old_backups(keep_count) up to the start of its loop
CleanOldBackups ==
    /\ phase = "idle"
    /\ last.result # "raised"
    /\ Spend(FALSE)
    /\ \E keep_count \in 0..MaxKeep, backups_list \in list_backups(backups) :
         LET old == IF Len(backups_list) <= keep_count THEN <<>>
                    ELSE OldBackups(backups_list, keep_count)
         IN  /\ last' = [ NoOp EXCEPT !.op = "clean_old_backups",
                                      !.result = IF old = <<>> THEN "ok"
                                                 ELSE "running",
                                      !.preBackups = backups,
                                      !.todo = old, !.keep = keep_count ]
             /\ phase' = IF old = <<>> THEN "idle" ELSE "payload"
    /\ UNCHANGED <<gitignore, claude, bak, tracking, backups, clock, T0, snap>>

\* the loop removes the payload of the backup at hand
RemovePayload ==
    /\ phase = "payload"
    /\ backups' = RemovePayloadOf(backups, Head(last.todo))
    /\ phase' = "metadata"
    /\ UNCHANGED <<gitignore, claude, bak, tracking, clock, last, T0, snap, budget>>

\* rmtree raises and the exception leaves clean_old_backups
RemovePayloadRaises ==
    /\ phase = "payload"
    /\ Head(last.todo) \in DOMAIN backups.payload
    /\ last' = [ last EXCEPT !.result = "raised" ]
    /\ phase' = "idle"
    /\ UNCHANGED <<gitignore, claude, bak, tracking, backups, clock, T0, snap, budget>>

\* the loop removes the metadata of the backup at hand and moves on
RemoveMetadata ==
    /\ phase = "metadata"
    /\ backups' = RemoveMetadataOf(backups, Head(last.todo))
    /\ last' = [ last EXCEPT !.todo = Tail(@),
                             !.result = IF Tail(last.todo) = <<>> THEN "ok"
                                        ELSE "running" ]
    /\ phase' = IF Tail(last.todo) = <<>> THEN "idle" ELSE "payload"
    /\ UNCHANGED <<gitignore, claude, bak, tracking, clock, T0, snap, budget>>

NextClean == CleanOldBackups \/ RemovePayload \/ RemovePayloadRaises \/ RemoveMetadata

SpecClean == InitClean /\ [][NextClean]_vars

----------------------------------------------------------------------------
(* The ignore-file step of setup on any .gitignore the project may have.   *)

IgnoreLines ==
    { ".ccpm_tracking.json", ".ccpm_backup/", ".claude/epics/", ".claude/prds/",
      ".claude/epics", "node_modules/", "" }

RECURSIVE SeqsUpTo(_, _)
SeqsUpTo(S, k) ==
    IF k = 0 THEN { <<>> }
    ELSE LET shorter == SeqsUpTo(S, k - 1)
         IN  shorter \cup { Append(q, x) : q \in shorter, x \in S }

\* the files: some lines, one terminator throughout, the last line
\* terminated or not
IgnoreFiles ==
    { NoIgnoreFile }
    \cup { IgnoreFile(JoinWith(lines, sep)
                      \o (IF final /\ lines # <<>> THEN <<sep>> ELSE <<>>)) :
             lines \in SeqsUpTo(IgnoreLines, MaxIgnoreLines),
             sep \in Terminators, final \in BOOLEAN }

InitIgnore ==
    /\ claude = NoTree
    /\ gitignore \in IgnoreFiles
    /\ bak = NoTree
    /\ tracking = NoTracking
    /\ backups = NoBackups
    /\ clock = 0
    /\ last = NoOp
    /\ T0 = NoTree
    /\ snap = Restrict(<<>>, {})
    /\ phase = "ignore"
    /\ budget = [ steps |-> MaxIgnoreRuns, edits |-> 0 ]

UpdateGitignore ==
    /\ Spend(FALSE)
    /\ gitignore' = update_gitignore(gitignore)
    /\ last' = [ NoOp EXCEPT !.op = "update_gitignore", !.result = "ok",
                             !.preIgnore = gitignore ]
    /\ UNCHANGED <<claude, bak, tracking, backups, clock, T0, snap, phase>>

NextIgnore == UpdateGitignore

SpecIgnore == InitIgnore /\ [][NextIgnore]_vars

----------------------------------------------------------------------------
(* list_backups on a backup directory with any *.json documents in it.     *)
(* A directory that is missing lists like one without documents.           *)

Documents(n) ==
    { [ source |-> SourceName, created_at |-> c, type |-> "directory" ] :
        c \in { 0, n, -1 } }
    \cup { [ source |-> SourceName, created_at |-> 0, type |-> t ] :
             t \in { "unparsable", "not_object" } }

DocumentDirs ==
    { [ payload |-> [ n \in M |-> Payload ], meta |-> m ] :
        M \in SUBSET (1..MaxDocuments),
        m \in UNION { { f \in [ D -> UNION { Documents(n) : n \in D } ] :
                           \A n \in D : f[n] \in Documents(n) } :
                      D \in SUBSET (1..MaxDocuments) } }

InitList ==
    /\ claude = NoTree
    /\ gitignore = NoIgnoreFile
    /\ bak = NoTree
    /\ tracking = NoTracking
    /\ backups \in { d \in DocumentDirs : DOMAIN d.payload = DOMAIN d.meta }
    /\ clock = 0
    /\ last = NoOp
    /\ T0 = NoTree
    /\ snap = Restrict(<<>>, {})
    /\ phase = "list"
    /\ budget = [ steps |-> 1, edits |-> 0 ]

\* list_backups returns its list (kept in last.todo)
ListBackups ==
    /\ ~list_backups_raises(backups)
    /\ Spend(FALSE)
    /\ \E l \in list_backups(backups) :
         last' = [ NoOp EXCEPT !.op = "list_backups", !.result = "ok",
                              !.preBackups = backups, !.todo = l ]
    /\ UNCHANGED <<gitignore, claude, bak, tracking, backups, clock, T0, snap, phase>>

\* the sort of list_backups raises TypeError
ListBackupsRaises ==
    /\ list_backups_raises(backups)
    /\ Spend(FALSE)
    /\ last' = [ NoOp EXCEPT !.op = "list_backups", !.result = "raised",
                             !.preBackups = backups ]
    /\ UNCHANGED <<gitignore, claude, bak, tracking, backups, clock, T0, snap, phase>>

NextList == ListBackups \/ ListBackupsRaises

SpecList == InitList /\ [][NextList]_vars

----------------------------------------------------------------------------
(* A backup directory that only create_backup and clean_old_backups work   *)
(* on, where a clean_old_backups run may stop between its two removals.    *)

\* the record list_backups returns for a metadata document: the document
\* itself and the path of the payload
BackupRecord(bk, n) ==
    [ source |-> bk.meta[n].source, created_at |-> bk.meta[n].created_at,
      type |-> bk.meta[n].type, backup_path |-> n ]

InitPrune ==
    /\ claude \in TreesOver(FilePaths, InitContents, MaxInitFiles)
    /\ gitignore = NoIgnoreFile
    /\ bak = NoTree
    /\ tracking = NoTracking
    /\ backups = NoBackups
    /\ clock = 0
    /\ last = NoOp
    /\ T0 = NoTree
    /\ snap = Restrict(<<>>, {})
    /\ phase = "idle"
    /\ budget = [ steps |-> MaxPruneSteps, edits |-> 0 ]

\* create_backup, between runs of clean_old_backups
CreateBackupIdle == phase = "idle" /\ CreateBackup

\* the unlink of the metadata raises, or the process stops before it
RemoveMetadataRaises ==
    /\ phase = "metadata"
    /\ last' = [ last EXCEPT !.result = "raised" ]
    /\ phase' = "idle"
    /\ UNCHANGED <<gitignore, claude, bak, tracking, backups, clock, T0, snap, budget>>

NextPrune ==
    \/ CreateBackupIdle \/ Tick
    \/ CleanOldBackups \/ RemovePayload \/ RemovePayloadRaises
    \/ RemoveMetadata \/ RemoveMetadataRaises

SpecPrune == InitPrune /\ [][NextPrune]_vars

----------------------------------------------------------------------------
(* The claims.                                                             *)

\* file p is in tree `after` with the content it has in tree `before`
Kept(before, after, p) == IsFile(after, p) /\ after.files[p] = before.files[p]

\* the user-content directories of the managed root
UserContentDirs ==
    { <<"agents">>, <<"prds">>, <<"epics">>, <<"context", "custom">> }

InUserContent(p) == \E d \in UserContentDirs : StartsWithDir(p, d)

\* C1: a run of uninstall, whatever the manifest, never deletes or changes a
\* file under agents/, prds/, epics/ or context/custom/ of the managed root.
C1_UninstallKeepsUserContent ==
    last.op = "uninstall" =>
        \A p \in Files(last.pre) : InUserContent(p) => Kept(last.pre, claude, p)

\* C2: when update raises after its backup was created, the managed tree is
\* what it was before update started and the manifest's last_updated is
\* unchanged.
C2_FailedUpdateRestores ==
    (last.op = "update" /\ last.result = "raised" /\ last.backed_up) =>
        /\ claude = last.pre
        /\ tracking.last_updated = last.preTracking.last_updated

\* a merge failed part-way in an update of a tree holding a user's file and a
\* loadable manifest, and update raised
C2_Witness ==
    /\ last.op = "update"
    /\ last.result = "raised"
    /\ last.outcome = "merge_fails"
    /\ last.backed_up
    /\ Files(last.pre) # {}
    /\ last.preTracking.kind = "current"

\* C3: a successful update never changes the content of a file that exists
\* under agents/, prds/ or epics/.
C3_UpdateKeepsUserDirs ==
    (last.op = "update" /\ last.result = "ok") =>
        \A p \in Files(last.pre) :
            (\E d \in { <<"agents">>, <<"prds">>, <<"epics">> } : StartsWithDir(p, d))
                => Kept(last.pre, claude, p)

\* C4: a CLAUDE.md that is in the managed root before setup has the same
\* content after setup completes.
C4_SetupKeepsClaudeMd ==
    (last.op = "setup" /\ last.result = "ok" /\ IsFile(last.pre, <<"CLAUDE.md">>))
        => Kept(last.pre, claude, <<"CLAUDE.md">>)

\* C5: every file that is in the managed tree before setup, at a path for
\* which the template provides no file, is there with the same content after
\* setup completes.
C5_SetupKeepsForeignFiles ==
    (last.op = "setup" /\ last.result = "ok") =>
        \A p \in Files(last.pre) \ Files(last.src) : Kept(last.pre, claude, p)

\* C6: after setup over a tree T, successful updates and an uninstall with a
\* valid manifest (no removal being refused by the file system), every file
\* of T is at its path with its content, and scripts/pm and commands/pm are
\* absent when T did not contain them.
C6_RoundTripRestoresOriginal ==
    (phase = "uninstalled" /\ last.failed = {}) =>
        /\ \A p \in Files(T0) : Kept(T0, claude, p)
        /\ \A d \in { <<"scripts", "pm">>, <<"commands", "pm">> } :
               ~IsDir(T0, d) => ~IsDir(claude, d)

\* setup found a tree with a file, an update went through, and uninstall ran
\* on a tree that held the scaffolding
C6_Witness ==
    /\ phase = "uninstalled"
    /\ last.failed = {}
    /\ Files(T0) # {}
    /\ Cardinality(BackupNames(backups)) >= 2
    /\ IsDir(last.pre, <<"scripts", "pm">>)
    /\ ~IsDir(T0, <<"scripts", "pm">>)

\* C7: with a manifest that does not parse and force set, uninstall returns
\* without raising, removes the known-safe files and leaves the user-content
\* directories as they were.
C7_CorruptManifestConservative ==
    (/\ last.op = "uninstall"
     /\ Exists(last.pre)
     /\ last.preTracking.kind = "corrupt"
     /\ last.env.force) =>
        /\ last.result # "raised"
        /\ \A f \in { <<"scripts", "test-and-log.sh">>, <<"settings.local.json">>,
                      <<"CLAUDE.md">> } : ~IsFile(claude, f)
        /\ \A p \in Files(last.pre) : InUserContent(p) => Kept(last.pre, claude, p)

\* C8: create_backup(T), then edits of T, then restore_backup of that backup
\* leave T as it was when the backup was created.
C8_BackupRoundTrip ==
    last.op = "restore_backup" => claude = snap[last.name]

\* a backup was restored over a tree that had since gained a file and lost or
\* changed another
C8_Witness ==
    /\ last.op = "restore_backup"
    /\ Files(last.pre) \ Files(snap[last.name]) # {}
    /\ \E p \in Files(snap[last.name]) : ~Kept(snap[last.name], last.pre, p)

\* the paths of this model that match a PRESERVE pattern
PreservePaths ==
    { <<"CLAUDE.md">>, <<"settings.local.json">>, <<"context", "README.md">>,
      <<"context", "custom", "note.md">>, <<"rules", "datetime.md">> }

\* the paths of this model that match an OVERWRITE pattern
OverwritePaths ==
    { <<"scripts", "pm", "init.sh">>, <<"commands", "pm", "status.md">>,
      <<"agents", "code-analyzer.md">> }

MergeRan == last.op \in { "merge", "merge_again" }

\* C9: merge_directories never changes the content of a target file that
\* exists before the merge at a path matching a PRESERVE pattern, in either
\* mode.
C9_PreserveUntouched ==
    MergeRan =>
        \A p \in Files(last.pre) \cap PreservePaths : Kept(last.pre, claude, p)

\* a merge in update mode whose source holds another content for a preserved
\* file of the target
C9_Witness ==
    /\ last.op = "merge"
    /\ last.mode
    /\ \E p \in Files(last.pre) \cap Files(last.src) \cap PreservePaths :
           last.src.files[p] # last.pre.files[p]

\* C10: after merge_directories completes, the target has the source's
\* content at every source path matching an OVERWRITE pattern.
C10_OverwriteApplied ==
    (MergeRan /\ last.result = "ok") =>
        \A p \in Files(last.src) \cap OverwritePaths : Kept(last.src, claude, p)

\* a merge that replaced one overwritten file of the target and created
\* another whose parent directory was missing
C10_Witness ==
    /\ last.op = "merge"
    /\ last.result = "ok"
    /\ \E p \in Files(last.src) \cap Files(last.pre) \cap OverwritePaths :
           last.src.files[p] # last.pre.files[p]
    /\ \E p \in Files(last.src) \cap OverwritePaths :
           ~IsDir(last.pre, SubSeq(p, 1, Len(p) - 1))

\* C11: running merge_directories(source, target, update_mode=True) a second
\* time on the same source leaves the target exactly as the first run left
\* it: same directories, same files, same contents.
C11_UpdateMergeIdempotent ==
    (last.op = "merge_again" /\ last.mode) => claude = last.pre

\* the second run of an update merge copies an overwritten file again and
\* skips a file outside the rules that the first run had put in place
C11_Witness ==
    /\ last.op = "merge_again"
    /\ last.mode
    /\ ToCopy(last.src, last.pre, TRUE) # {}
    /\ \E p \in Files(last.src) \ (OverwritePaths \cup PreservePaths) :
           Kept(last.src, last.pre, p)

\* the path is agents, prds or epics, or lies inside one of them
NamesUserDir(f) == Len(f) > 0 /\ f[1] \in { "agents", "prds", "epics" }

LegacyUninstallRan ==
    /\ last.op = "uninstall"
    /\ last.result = "tracked"
    /\ last.preTracking.kind = "legacy"
    /\ \E i \in 1..Len(last.preTracking.ccpm_files) :
           NamesUserDir(last.preTracking.ccpm_files[i])

\* C12: uninstall with a legacy manifest whose ccpm_files list names agents,
\* prds or epics, or a path inside them, treats none of those entries as safe
\* to delete, and every file under those directories still exists afterwards.
C12_LegacyUninstallKeepsUserDirs ==
    LegacyUninstallRan =>
        /\ \A i \in 1..Len(ScaffoldingFiles(last.preTracking)) :
               ~NamesUserDir(ScaffoldingFiles(last.preTracking)[i])
        /\ \A p \in Files(last.pre) : NamesUserDir(p) => p \in Files(claude)

\* C13: uninstall with a valid manifest removes a listed scaffolding
\* directory only if the directory passes the user-content-free check: the
\* files of a listed directory that fails the check survive.
C13_ScaffoldingDirsChecked ==
    (/\ last.op = "uninstall"
     /\ last.result = "tracked"
     /\ last.preTracking.kind = "current") =>
        \A i \in 1..Len(ScaffoldingFiles(last.preTracking)) :
            LET d == ScaffoldingFiles(last.preTracking)[i]
            IN  (/\ IsDir(last.pre, d)
                 /\ ~is_directory_empty_of_user_content(last.pre, d)) =>
                    \A p \in Files(last.pre) :
                        StartsWithDir(p, d) => Kept(last.pre, claude, p)

\* setup on a target without a managed root, then uninstall with no
\* removal refused, and nothing in between
FreshSetupThenUninstall ==
    /\ phase = "uninstalled"
    /\ T0 = NoTree
    /\ last.op = "uninstall"
    /\ last.failed = {}
    /\ budget.steps = MaxSteps - 2

\* C14: from a target with no managed root, setup followed by uninstall,
\* with no user file added in between and whatever the template installed,
\* leaves neither the managed root nor the manifest file.
C14_FreshInstallFullyRemoved ==
    FreshSetupThenUninstall => (~Exists(claude) /\ tracking.kind = "missing")

\* the confirmation answer of the run is y: supplied through
\* CCPM_UNINSTALL_SCAFFOLDING, or typed at the prompt of an interactive run
Confirmed(env) ==
    \/ env.override = "y"
    \/ env.override = "none" /\ env.tty /\ ~env.force /\ env.typed = "y"

UninstallWithoutManifest ==
    /\ last.op = "uninstall"
    /\ Exists(last.pre)
    /\ last.preTracking.kind = "missing"

ConservativeUninstallRan ==
    /\ UninstallWithoutManifest
    /\ Confirmed(last.env)
    /\ last.result = "conservative"

\* the fixed list of files the conservative path may unlink
KnownSafeFiles ==
    { <<"scripts", "test-and-log.sh">>, <<"settings.local.json">>,
      <<"CLAUDE.md">> }

\* the tree without the files of the fixed list
WithoutKnownSafe(t) ==
    [ t EXCEPT !.files = Restrict(t.files, Files(t) \ KnownSafeFiles) ]

\* the directory passes the user-content-free check: the allowlist form or
\* the glob form
UserContentFree(t, d) ==
    is_template_only_directory(t, d) \/ is_directory_empty_of_user_content(t, d)

\* the directories below the root that the run removed
RemovedDirs == { d \in last.pre.dirs : d # <<>> /\ ~IsDir(claude, d) }

\* C16: with the manifest missing and the confirmation given, uninstall
\* unlinks single files only from the fixed list, removes a directory only
\* when it passes the user-content-free check, and when an item left in the
\* root is not recognised as a template it removes nothing else and keeps
\* the root.
C16_ConservativeRemovals ==
    ConservativeUninstallRan =>
        /\ \A p \in Files(last.pre) :
               \/ Kept(last.pre, claude, p)
               \/ p \in KnownSafeFiles
               \/ \E d \in RemovedDirs : StartsWithDir(p, d)
        /\ \A d \in RemovedDirs : UserContentFree(WithoutKnownSafe(last.pre), d)
        /\ (\E x \in IterDir(claude, <<>>) : ~is_template_file(claude, x)) =>
               /\ Exists(claude)
               /\ \A p \in Files(last.pre) :
                      \/ Kept(last.pre, claude, p)
                      \/ p \in KnownSafeFiles
                      \/ StartsWithDir(p, <<"scripts", "pm">>)

\* a confirmed run without manifest that unlinked CLAUDE.md, removed
\* scripts/pm, and stopped at an unrecognised item while a recognised
\* directory was still in the root
C16_Witness ==
    /\ ConservativeUninstallRan
    /\ <<"CLAUDE.md">> \in Files(last.pre) \ Files(claude)
    /\ <<"scripts", "pm">> \in RemovedDirs
    /\ \E x \in IterDir(claude, <<>>) : ~is_template_file(claude, x)
    /\ \E x \in IterDir(claude, <<>>) :
           IsDir(claude, x) /\ is_template_file(claude, x)

----------------------------------------------------------------------------
(* The two directory checks on their own: any tree, any directory.         *)

CheckPaths ==
    { <<"agents", "code-analyzer.md">>, <<"agents", "my.py">>,
      <<"prds", ".gitkeep">>, <<"prds", "feature.md">>,
      <<"scripts", "custom.sh">>, <<"scripts", "pm", "init.sh">>,
      <<"epics", "e1", "epic.md">>, <<"context", "README.md">> }

\* the directories asked about; rules is never there
CheckDirs ==
    { <<"agents">>, <<"prds">>, <<"scripts">>, <<"scripts", "pm">>,
      <<"epics">>, <<"context">>, <<"rules">> }

InitCheck ==
    /\ claude \in TreesOver(CheckPaths, InitContents, MaxCheckFiles)
    /\ gitignore = NoIgnoreFile
    /\ bak = NoTree
    /\ tracking = NoTracking
    /\ backups = NoBackups
    /\ clock = 0
    /\ last = NoOp
    /\ T0 = NoTree
    /\ snap = Restrict(<<>>, {})
    /\ phase = "check"
    /\ budget = [ steps |-> MaxCheckSteps, edits |-> 1 ]

Answer(b) == IF b THEN "true" ELSE "false"

\* _is_template_only_directory(directory) is called
IsTemplateOnlyDirectory ==
    \E d \in CheckDirs :
        /\ Spend(FALSE)
        /\ last' = [ Ran("is_template_only_directory",
                          Answer(is_template_only_directory(claude, d)))
                        EXCEPT !.dir = d ]
        /\ UNCHANGED <<gitignore, claude, bak, tracking, backups, clock, T0, snap, phase>>

\* _is_directory_empty_of_user_content(directory) is called
IsDirectoryEmptyOfUserContent ==
    \E d \in CheckDirs :
        /\ Spend(FALSE)
        /\ last' = [ Ran("is_directory_empty_of_user_content",
                          Answer(is_directory_empty_of_user_content(claude, d)))
                        EXCEPT !.dir = d ]
        /\ UNCHANGED <<gitignore, claude, bak, tracking, backups, clock, T0, snap, phase>>

\* a file is deleted, which may leave its directory empty
DeleteFile ==
    \E p \in Files(claude) :
        /\ Spend(TRUE)
        /\ claude' = Unlink(claude, p)
        /\ last' = Ran("edit", "ok")
        /\ UNCHANGED <<gitignore, bak, tracking, backups, clock, T0, snap, phase>>

NextCheck == IsTemplateOnlyDirectory \/ IsDirectoryEmptyOfUserContent \/ DeleteFile

SpecCheck == InitCheck /\ [][NextCheck]_vars

\* C17: each of the two directory checks answers false whenever some file at
\* any depth under the directory is not a recognised template file, whatever
\* its name, and answers true for an empty or missing directory.
C17_DirectoryChecksConservative ==
    last.op \in { "is_template_only_directory",
                  "is_directory_empty_of_user_content" } =>
        /\ (\E p \in Files(claude) :
                StartsWithDir(p, last.dir) /\ p \notin TemplateOnlyFiles)
              => last.result = "false"
        /\ (~IsDir(claude, last.dir) \/ IterDir(claude, last.dir) = {})
              => last.result = "true"

\* uninstall ran with a valid manifest and the removal of a scaffolding path
\* was refused
UninstallWithRefusedRemoval ==
    /\ last.op = "uninstall"
    /\ last.preTracking.kind \in { "current", "legacy" }
    /\ last.failed # {}

\* the run went on after the refusal: it returned, the manifest file is gone
\* and no other scaffolding path is left
C18_GoesOnAfterRefusal ==
    UninstallWithRefusedRemoval =>
        /\ last.result = "tracked"
        /\ tracking.kind = "missing"
        /\ \A i \in 1..Len(ScaffoldingFiles(last.preTracking)) :
               LET f == ScaffoldingFiles(last.preTracking)[i]
               IN  (~StartsWithContext(f) /\ ~RemovalFails(last.pre, f, last.failed))
                       => ~PathExists(claude, f)

\* C18: when the removal of one scaffolding path fails during uninstall with
\* a valid manifest, uninstall does not raise, still attempts the remaining
\* scaffolding paths, still deletes the manifest file, and leaves every
\* file the user wrote under a user-content directory untouched.
C18_RefusedRemovalHandled ==
    /\ C18_GoesOnAfterRefusal
    /\ UninstallWithRefusedRemoval =>
           \A p \in Files(last.pre) :
               (/\ InUserContent(p)
                /\ last.pre.files[p] \in InitContents \cup EditContents)
                   => Kept(last.pre, claude, p)

\* C19: when the copy of one file fails during merge_directories, every
\* other source file that the rules select for copying is in the target
\* with the source's content.
C19_CopyFailureSkipped ==
    (last.op = "merge" /\ last.result = "raised") =>
        \E f \in ToCopy(last.src, last.pre, last.mode) :
            \A p \in ToCopy(last.src, last.pre, last.mode) \ {f} :
                Kept(last.src, claude, p)

\* the run took a backup, and a backup holds the tree the run found
BackupOfPreTaken ==
    /\ last.backed_up
    /\ \E n \in BackupNames(backups) : backups.payload[n] = last.pre

\* setup over an existing tree, and update, change the tree only after the
\* backup
C20_SetupAndUpdateBackUpFirst ==
    (/\ \/ last.op = "setup" /\ Exists(last.pre)
        \/ last.op = "update"
     /\ claude # last.pre) => BackupOfPreTaken

\* C20: setup over an existing managed tree, update, and uninstall without a
\* manifest change the managed tree only after a BackupManager backup of it
\* has been completed.
C20_BackupBeforeChange ==
    /\ C20_SetupAndUpdateBackUpFirst
    /\ (UninstallWithoutManifest /\ claude # last.pre) => BackupOfPreTaken

\* a successful create_backup has just run
BackupCreated == last.op = "create_backup" /\ last.result = "ok"

\* C21: a successful create_backup leaves every earlier backup's payload and
\* metadata as they were and makes a backup under a name no earlier backup
\* has, also when the earlier backup was made in the same clock second.
C21_CreateBackupKeepsEarlier ==
    BackupCreated =>
        /\ last.name \notin BackupNames(last.preBackups)
        /\ last.name \in DOMAIN backups.payload \cap DOMAIN backups.meta
        /\ \A n \in BackupNames(last.preBackups) :
              /\ n \in DOMAIN backups.payload \cap DOMAIN backups.meta
              /\ backups.payload[n] = last.preBackups.payload[n]
              /\ backups.meta[n] = last.preBackups.meta[n]

\* the part of C21 that the code keeps: backups made in other seconds stay
C21_OtherSecondsKept ==
    BackupCreated =>
        \A n \in BackupNames(last.preBackups) \ {last.name} :
            /\ backups.payload[n] = last.preBackups.payload[n]
            /\ backups.meta[n] = last.preBackups.meta[n]

\* a second successful create_backup in the second of an earlier backup
C21_SameSecondTwice ==
    BackupCreated /\ last.name \in BackupNames(last.preBackups)

\* a document that json.load reads
CompleteManifest(trk) == trk.kind \in { "current", "legacy" }

\* C22: after setup or update, whether or not the write of the manifest went
\* through, the manifest on disk is the complete document it was before or a
\* complete new document, never one that does not load.
C22_ManifestWriteAtomic ==
    last.op \in { "setup", "update" } =>
        tracking = last.preTracking \/ CompleteManifest(tracking)

\* the write of the manifest stopped part-way in the last setup or update
C22_WriteInterrupted ==
    last.op \in { "setup", "update" } /\ last.outcome = "save_fails"

\* the part of C22 that the code keeps: a write that goes through leaves a
\* complete document
C22_CompletedWriteLoads ==
    (last.op \in { "setup", "update" } /\ last.outcome # "save_fails") =>
        tracking = last.preTracking \/ CompleteManifest(tracking)

\* the managed root as the removal pass of the last tracked uninstall left it
AfterRemovalPass ==
    LET t1 == RemoveScaffolding(last.pre, ScaffoldingFiles(last.preTracking),
                                last.failed)
    IN  IF ~last.preTracking.had_existing_claude
        THEN RemoveTemplateDirs(t1, template_dirs_to_check, last.failed) ELSE t1

\* uninstall with a manifest ran, no removal was refused and there was no
\* .claude.backup to put back
PlainTrackedUninstall ==
    /\ last.op = "uninstall" /\ last.result = "tracked"
    /\ last.failed = {} /\ ~Exists(last.preBak)

OnlySettingsLeft(t) ==
    /\ IterDir(t, <<>>) = { <<"settings.local.json">> }
    /\ IsFile(t, <<"settings.local.json">>)

\* C23: when the removal pass of uninstall with a manifest leaves the managed
\* root empty, or holding settings.local.json alone, the managed root does not
\* exist when uninstall returns.
C23_EmptyOrSettingsOnlyRootRemoved ==
    (/\ PlainTrackedUninstall
     /\ Exists(AfterRemovalPass)
     /\ IterDir(AfterRemovalPass, <<>>) = {} \/ OnlySettingsLeft(AfterRemovalPass))
        => ~Exists(claude)

\* the part of C23 that the code keeps: an empty root is removed
C23_EmptyRootRemoved ==
    (/\ PlainTrackedUninstall
     /\ Exists(AfterRemovalPass)
     /\ IterDir(AfterRemovalPass, <<>>) = {})
        => ~Exists(claude)

\* the removal pass left settings.local.json alone in the managed root
C23_SettingsOnlyLeft ==
    PlainTrackedUninstall /\ OnlySettingsLeft(AfterRemovalPass)

\* C24: a confirmed uninstall without a manifest, run while .claude.backup
\* exists, has moved that copy back to the managed root when it returns.
C24_ConservativeUninstallRestores ==
    (ConservativeUninstallRan /\ Exists(last.preBak)) =>
        claude = last.preBak /\ ~Exists(bak)

\* a confirmed uninstall without a manifest ran while .claude.backup existed
C24_ConservativeWithBackup ==
    ConservativeUninstallRan /\ Exists(last.preBak)


\* C25: merge_directories deletes no file of the target, and a target file at
\* a path where the source holds no file has the content it had before.
C25_MergeKeepsTargetFiles ==
    MergeRan =>
        \A p \in Files(last.pre) :
            /\ IsFile(claude, p)
            /\ p \notin Files(last.src) => Kept(last.pre, claude, p)

\* a merge that copied a file went over a target holding a file the source
\* does not hold
C25_Witness ==
    /\ last.op = "merge" /\ last.result = "ok"
    /\ claude # last.pre
    /\ \E p \in Files(last.pre) : p \notin Files(last.src)

\* the consequence for update: a successful update leaves every file the
\* downloaded template does not provide in place with its content
C25_UpdateKeepsUnprovided ==
    (last.op = "update" /\ last.result = "ok") =>
        \A p \in Files(last.pre) :
            p \notin Files(last.src) => Kept(last.pre, claude, p)

\* the three cases in which a source file is to be copied
CopyExpected(p, target) ==
    \/ MatchesAny(p, PRESERVE_FILES) /\ ~IsFile(target, p)
    \/ ~MatchesAny(p, PRESERVE_FILES) /\ MatchesAny(p, OVERWRITE_FILES)
    \/ /\ ~MatchesAny(p, PRESERVE_FILES) /\ ~MatchesAny(p, OVERWRITE_FILES)
       /\ ~IsFile(target, p)

\* C26: a completed merge has copied a source file exactly when the file
\* matches a PRESERVE pattern and the target had no file there, or matches no
\* PRESERVE pattern and an OVERWRITE pattern, or matches neither and the target
\* had no file there; a file not copied is as it was, and the decision is the
\* same in both modes.
C26_CopyDecision ==
    (last.op = "merge" /\ last.result = "ok") =>
        \A p \in Files(last.src) :
            /\ should_copy_file(p, last.pre, last.mode) = CopyExpected(p, last.pre)
            /\ should_copy_file(p, last.pre, TRUE) = should_copy_file(p, last.pre, FALSE)
            /\ IF CopyExpected(p, last.pre) THEN Kept(last.src, claude, p)
               ELSE Kept(last.pre, claude, p)

\* a merge outside update mode skipped a file outside the rules because the
\* target had it, and copied a file matching an OVERWRITE pattern over the
\* target's
C26_Witness ==
    /\ last.op = "merge" /\ last.result = "ok" /\ ~last.mode
    /\ \E p \in Files(last.src) :
          /\ ~MatchesAny(p, PRESERVE_FILES) /\ ~MatchesAny(p, OVERWRITE_FILES)
          /\ IsFile(last.pre, p) /\ Kept(last.pre, claude, p)
    /\ \E p \in Files(last.src) :
          /\ MatchesAny(p, OVERWRITE_FILES)
          /\ IsFile(last.pre, p) /\ Kept(last.src, claude, p)

\* the manifest on disk is a document _create_tracking_file wrote
ManifestOfSetup(trk) == trk.kind = "current"

\* C27: a manifest written by _create_tracking_file names agents, prds or
\* epics in no entry of ccpm_scaffolding_files, lists the three in
\* user_content_dirs and carries data_safety_version; an update that rewrites
\* the manifest leaves the two lists as they were.
C27_ManifestListsSafe ==
    ManifestOfSetup(tracking) =>
        /\ \A i \in 1..Len(tracking.ccpm_scaffolding_files) :
              ~ContainsUserDir(tracking.ccpm_scaffolding_files[i])
        /\ { <<"agents">>, <<"prds">>, <<"epics">> } \subseteq tracking.user_content_dirs
        /\ tracking.data_safety_version # "none"
        /\ (last.op = "update" /\ ManifestOfSetup(last.preTracking)) =>
              /\ tracking.ccpm_scaffolding_files
                     = last.preTracking.ccpm_scaffolding_files
              /\ tracking.user_content_dirs = last.preTracking.user_content_dirs

\* an update has rewritten a manifest that setup wrote
C27_Witness ==
    /\ last.op = "update" /\ last.result = "ok"
    /\ ManifestOfSetup(last.preTracking) /\ ManifestOfSetup(tracking)
    /\ tracking # last.preTracking

\* C28: the manifest a successful setup writes has had_existing_claude true
\* exactly when the managed root existed when setup started.
C28_HadExistingRecorded ==
    (last.op = "setup" /\ last.result = "ok") =>
        /\ ManifestOfSetup(tracking)
        /\ tracking.had_existing_claude = Exists(last.pre)

\* a successful setup ran over a managed root that was there
C28_Witness ==
    last.op = "setup" /\ last.result = "ok" /\ Exists(last.pre)

\* a successful setup ran where no managed root was
C28_WitnessFresh ==
    last.op = "setup" /\ last.result = "ok" /\ ~Exists(last.pre)

\* the merge of the last update went through
UpdateMerged ==
    /\ last.op = "update" /\ last.backed_up
    /\ last.outcome \in { "ok", "save_fails" }

\* C29: once its merge went through, update returns success with the merged
\* tree in place, also when the manifest does not load or its write fails;
\* a manifest that loads and is written has last_updated set and is otherwise
\* as before.
C29_TrackingFailureTolerated ==
    UpdateMerged =>
        /\ last.result = "ok"
        /\ claude = merge_directories(last.src, last.pre, TRUE)
        /\ (CompleteManifest(last.preTracking) /\ last.outcome = "ok") =>
              /\ tracking.last_updated > 0
              /\ tracking = [ last.preTracking EXCEPT
                                  !.last_updated = tracking.last_updated ]

\* the write of the manifest failed in an update whose merge changed the tree
C29_Witness ==
    UpdateMerged /\ last.outcome = "save_fails" /\ claude # last.pre

\* the manifest did not load in an update whose merge changed the tree
C29_WitnessUnreadable ==
    UpdateMerged /\ last.preTracking.kind = "corrupt" /\ claude # last.pre

\* clean_old_backups has returned
CleanDone == last.op = "clean_old_backups" /\ last.result = "ok"

Min(a, b) == IF a <= b THEN a ELSE b

\* C30: after clean_old_backups(k), of the n backups listed before exactly
\* min(n, k) are listed, unchanged, none of them older than a removed one;
\* of every other backup payload and metadata are gone; and at no moment of
\* the run is the metadata of a backup gone while its payload is there.
C30_CleanKeepsNewest ==
    /\ CleanDone =>
          LET before == Listed(last.preBackups)
              after == Listed(backups)
          IN  /\ Cardinality(after) = Min(Cardinality(before), last.keep)
              /\ after \subseteq before
              /\ \A n \in after :
                    /\ backups.meta[n] = last.preBackups.meta[n]
                    /\ n \in DOMAIN last.preBackups.payload
                          => n \in DOMAIN backups.payload
              /\ \A n \in after, r \in before \ after :
                    backups.meta[n].created_at
                        >= last.preBackups.meta[r].created_at
              /\ \A r \in before \ after :
                    r \notin DOMAIN backups.payload /\ r \notin DOMAIN backups.meta
    /\ last.op = "clean_old_backups" =>
          \A n \in Listed(last.preBackups) :
              (n \in DOMAIN last.preBackups.payload /\ n \in DOMAIN backups.payload)
                  => n \in DOMAIN backups.meta

\* a run that kept some backups and removed others, payload and metadata
C30_Witness ==
    /\ CleanDone
    /\ Listed(backups) # {}
    /\ \E r \in Listed(last.preBackups) \ Listed(backups) :
          r \in DOMAIN last.preBackups.payload

\* no run of clean_old_backups is between its two removals
NoCleanUnderWay == phase = "idle"

\* the record tells by itself that its payload is gone: it has a field for
\* that (the records of list_backups have none)
DetectablyStale(r) == "stale" \in DOMAIN r

C31_InterruptedClean ==
    /\ last.op = "clean_old_backups" /\ last.result = "raised"
    /\ Head(last.todo) \notin DOMAIN backups.payload

\* the list is one record for each document of D, newest created_at first
ListsNewestFirst(l, D) ==
    /\ Len(l) = Cardinality(D)
    /\ { l[i] : i \in DOMAIN l } = D
    /\ \A i, j \in DOMAIN l :
          i < j => backups.meta[l[i]].created_at >= backups.meta[l[j]].created_at

\* the documents that are JSON objects
JsonObjects(bk) == { n \in DOMAIN bk.meta : bk.meta[n].type = "directory" }

\* C32: list_backups returns, whatever the documents in the backup
\* directory hold, one record for each document that parses as an object,
\* newest created_at first, and never fails; without documents the list is
\* empty.
C32_ListingNeverFails ==
    last.op = "list_backups" =>
        /\ last.result = "ok"
        /\ ListsNewestFirst(last.todo, JsonObjects(backups))

\* the part of C32 that the code keeps: documents that are not JSON or no
\* object are skipped and the rest is listed newest first, as long as no
\* created_at string meets a created_at number
C32_StringDatesListed ==
    (last.op = "list_backups" /\ ~list_backups_raises(backups)) =>
        /\ last.result = "ok"
        /\ ListsNewestFirst(last.todo, JsonObjects(backups))

\* list_backups ran on a directory where a document was skipped
C32_SkippedDocument ==
    /\ last.op = "list_backups" /\ last.result = "ok"
    /\ last.todo # <<>>
    /\ JsonObjects(backups) # DOMAIN backups.meta

\* the lines of an ignore file, none for a missing file
LinesOf(file) == IF file.exists THEN splitlines(file.content) ELSE <<>>

Count(entry, lines) == Cardinality({ i \in DOMAIN lines : lines[i] = entry })

\* C33: after the ignore-file update each of the four entries is a line, an
\* entry that was a line before is there as often as before and any other
\* entry once, the lines of before come first in their order, and one more
\* update would write the same file.
C33_IgnoreFileUpdated ==
    last.op = "update_gitignore" =>
        LET before == LinesOf(last.preIgnore)
            after == LinesOf(gitignore)
        IN  /\ \A i \in DOMAIN entries_to_add :
                  Count(entries_to_add[i], after)
                      = IF InLines(entries_to_add[i], before)
                        THEN Count(entries_to_add[i], before) ELSE 1
            /\ Len(after) >= Len(before)
            /\ SubSeq(after, 1, Len(before)) = before
            /\ update_gitignore(gitignore) = gitignore

\* the update ran on a file that had one of the entries and other lines and
\* added the missing entries
C33_Witness ==
    /\ last.op = "update_gitignore"
    /\ \E i \in DOMAIN entries_to_add :
          InLines(entries_to_add[i], LinesOf(last.preIgnore))
    /\ InLines("node_modules/", LinesOf(last.preIgnore))
    /\ gitignore # last.preIgnore

\* update or uninstall ran where no managed root was
RanWithoutRoot ==
    last.op \in { "update", "uninstall" } /\ ~Exists(last.pre)

\* C34: update and uninstall run without a managed root leave the managed
\* root, .claude.backup, the manifest and the backups as they were; update
\* raises its not-installed error and uninstall returns.
C34_NoRootNoChange ==
    RanWithoutRoot =>
        /\ claude = last.pre
        /\ bak = last.preBak
        /\ tracking = last.preTracking
        /\ backups = last.preBackups
        /\ last.op = "update" => last.result = "raised_not_installed"
        /\ last.op = "uninstall" => last.result = "not_installed"

\* update ran without a managed root while a manifest was there
C34_Witness ==
    /\ RanWithoutRoot /\ last.op = "update"
    /\ last.preTracking.kind # "missing"

\* uninstall ran without a managed root while a manifest was there
C34_WitnessUninstall ==
    /\ RanWithoutRoot /\ last.op = "uninstall"
    /\ last.preTracking.kind # "missing"

\* C35: after setup has run two or more times over a tree T (which may be
\* empty or absent) and uninstall then runs with the manifest of the last
\* setup, no removal being refused, every file of T is at its path with its
\* content, and scripts/pm and commands/pm are absent when T did not contain
\* them.
C35_RepeatedSetupRoundTrip ==
    (phase = "reuninstalled" /\ last.failed = {}) =>
        /\ \A p \in Files(T0) : Kept(T0, claude, p)
        /\ \A d \in { <<"scripts", "pm">>, <<"commands", "pm">> } :
               ~IsDir(T0, d) => ~IsDir(claude, d)

\* setup raised on a target where a managed root was
SetupFailedOverTree ==
    last.op = "setup" /\ last.result = "raised" /\ Exists(last.pre)

\* C36: when setup raises on a target that had a managed root, the tree
\* that was there is at the managed root again, as it was.
C36_FailedSetupRollsBack ==
    SetupFailedOverTree => claude = last.pre

\* setup raised after it had moved the tree aside
C36_FailedAfterMove ==
    SetupFailedOverTree /\ last.outcome = "copy_fails"

(***************************************************************************)
(* setup, update and uninstall runs on one target, each of which may fail  *)
(* at a step, with nothing else touching the target.                       *)
(***************************************************************************)
SetupRuns ==
    SetupWith({ "ok", "gh_missing", "template_missing", "copy_fails", "save_fails" })

UpdateRuns ==
    UpdateWith({ "ok", "clone_fails", "no_claude_dir", "merge_fails", "save_fails" })

NextRuns == SetupRuns \/ UpdateRuns \/ Uninstall \/ Tick

SpecRuns == Init /\ [][NextRuns]_vars

\* a manifest file is on disk, whatever it holds
ManifestExists == tracking.kind # "missing"

\* C37: after any runs of setup, update and uninstall the manifest file
\* exists only if the managed root directory exists.
C37_ManifestOnlyWithRoot ==
    ManifestExists => Exists(claude)

\* a setup over an installed tree failed after moving it aside
C37_ManifestLeftWithoutRoot ==
    ManifestExists /\ ~Exists(claude) /\ last.op = "setup"

\* C38: restore_backup leaves the payload and the metadata of every backup
\* as they were, and restoring the same backup once more yields the tree
\* the first restore yielded.
C38_RestoreRepeatable ==
    last.op = "restore_backup" =>
        /\ backups = last.preBackups
        /\ restore_backup(backups, last.name, claude) = claude

\* a restore that changed the target
C38_Witness ==
    /\ last.op = "restore_backup"
    /\ claude # last.pre
    /\ Exists(claude)
====
